---- MODULE Spec2Model ----
(***************************************************************************)
(* Model of the incremental fetch engines of perceval's Gerrit and Meetup  *)
(* backends and of the Gerrit command transport (retry, archive, replay).  *)
(*                                                                         *)
(*   Spec      the fetch engines: Gerrit._fetch_gerrit28 (dual queue),     *)
(*             Gerrit._fetch_gerrit (single queue), MeetupClient.events    *)
(*   SpecExec  GerritClient.__execute: one logical command at a time       *)
(***************************************************************************)
EXTENDS Integers, Sequences, FiniteSets, TLC

\* ------------------------------------------------------------------------
\* Bounds of the model
\* ------------------------------------------------------------------------
MaxTime == 2
MaxLen == 3
MaxPage == 2
MaxUser == 2
MaxQuota == 1
MaxReset == 2
MaxClock == 2
MaxBudget == 3
MaxDelay == 2

\* ------------------------------------------------------------------------
\* Program constants
\* ------------------------------------------------------------------------
MAX_REVIEWS == 500

\* ------------------------------------------------------------------------
\* Values
\* ------------------------------------------------------------------------
\* Python's None, an integer offset and a sortKey string, as tagged values
NoneVal == [t |-> "none", v |-> 0]
IntVal(n) == [t |-> "int", v |-> n]
KeyVal(k) == [t |-> "key", v |-> k]

SeqsUpTo(S, n) == UNION {[1..k -> S] : k \in 0..n}

Max(a, b) == IF a >= b THEN a ELSE b
Min(a, b) == IF a <= b THEN a ELSE b

VARIABLES
    backend,              \* "gerrit" or "meetup": which backend this run is
    pc,                   \* position of the fetch generator
    yielded,              \* the items handed to the caller so far, in order
    requests,             \* the page requests issued so far, in order
    error,                \* the fatal error the fetch raised ("none": no error)
    \* Gerrit
    version,              \* GerritClient.version: <<major, minor>>
    max_reviews,          \* Gerrit.max_reviews
    from_ut,              \* the watermark as a UNIX time
    partitions,           \* the server's reviews, per status filter
    reviews_open, reviews_closed,
    last_item_open, last_item_closed,
    last_nreviews_open, last_nreviews_closed,
    review_open, review_closed, \* last review popped of each queue (<<>>: unbound)
    reviews, last_item, last_nreviews,
    review,               \* last review popped by the single-queue loop (<<>>: unbound)
    gerrit_user,          \* GerritClient.gerrit_user
    \* Meetup
    from_date,            \* the watermark, an instant
    max_items,            \* MeetupClient.max_items
    group_exists,         \* whether the server knows the group
    group_events,         \* the server's events of the group, per event type
    event_idx, cursor,
    events_page,          \* the page the events loop is walking
    edge_i,               \* position of the for loop in events_page's edges
    \* Gerrit command transport
    from_archive,         \* GerritClient.from_archive: replay mode
    has_archive,          \* whether GerritClient.archive is set
    archive,              \* the archive's contents: sanitized command -> value
    xpc,                  \* position of GerritClient.__execute; idle outside it
    cmd,                  \* the command being executed
    retries, result,      \* locals of __execute_from_remote
    response,             \* what the client gave its caller: returned or raised
    attempts,             \* outcomes of the subprocess runs of this command
    slept,                \* durations of the time.sleep calls of this command
    stores,               \* archive.store calls of this command
    retrieves,            \* archive.retrieve calls of this command
    recorded              \* sanitized command -> last outcome of a recording run

gvars28 == <<reviews_open, reviews_closed, last_item_open, last_item_closed,
             last_nreviews_open, last_nreviews_closed, review_open, review_closed>>
gvars1 == <<reviews, last_item, last_nreviews, review>>
gconf == <<version, max_reviews, from_ut, partitions, gerrit_user>>
mconf == <<from_date, max_items, group_exists, group_events>>
mvars == <<event_idx, cursor, events_page, edge_i>>
xconf == <<from_archive, has_archive>>
xvars == <<xconf, archive, xpc, cmd, retries, result, response, attempts, slept,
           stores, retrieves, recorded>>
fvars == <<backend, pc, yielded, requests, error, version, max_reviews, from_ut, partitions,
           gvars28, gvars1, mconf, mvars>>

VARIABLES
    \* sanitize_for_archive applied to two request descriptors
    descriptors,          \* the two descriptors, as they were built
    sanitized,            \* what sanitize_for_archive returned for each
    \* RateLimitHandler
    subclass,             \* the client class: "MockedClient" or "MeetupClient"
    sleep_for_rate,       \* RateLimitHandler.sleep_for_rate: throttling enabled
    min_rate_to_sleep,    \* RateLimitHandler.min_rate_to_sleep: the floor
    rate_limit,           \* RateLimitHandler.rate_limit: remaining quota or None
    rate_limit_reset_ts,  \* RateLimitHandler.rate_limit_reset_ts: reset value or None
    now,                  \* the clock, in seconds
    observed_at,          \* the clock when update_rate_limit last ran
    waited_at,            \* the clock when sleep_for_rate_limit last ran
    rate_before,          \* the rate state before the last handler call
    last_headers,         \* the quota headers of the last response observed
    rpc,                  \* the last handler call and how it ended
    rate_slept,           \* durations of the time.sleep calls of the last wait
    rate_error,           \* the error the last wait raised ("none": no error)
    \* HttpClient.fetch
    hpc,                  \* position of HttpClient.fetch
    max_retries,          \* HttpClient.max_retries
    http_status,          \* the status the server answers the url with
    retry_after,          \* the Retry-After header of the answers
    http_attempts,        \* number of times the request was sent
    http_slept,           \* durations of the waits between the sends
    http_error,           \* the error fetch raised ("none": no error)
    extra_status_forcelist, \* HttpClient's extra_status_forcelist argument
    http_response,        \* the response fetch returned (NoneVal: none)
    \* sub-resources of one event: MeetupClient.comments and MeetupClient.rsvps
    spc,                  \* position of the sub-resource walk
    event_comments,       \* the server's comments of the event
    event_tickets,        \* the server's tickets of the event
    ncomments,            \* local of MeetupClient.comments
    tickets_cursor,       \* local `cursor` of MeetupClient.rsvps
    comments_node,        \* the page the comments walk holds
    tickets_node,         \* the page the rsvps walk holds
    comments, rsvps,      \* the lists Meetup.__fetch_and_parse_* build
    \* MeetupClient._fetch
    replay,               \* HttpClient.from_archive of the Meetup client
    cpc,                  \* position of MeetupClient._fetch
    calls,                \* the calls made by and to _fetch, in order
    received              \* the quota headers of the response _fetch got last

svars == <<descriptors, sanitized>>
rconf == <<subclass, sleep_for_rate, min_rate_to_sleep>>
rvars == <<rconf, rate_limit, rate_limit_reset_ts, now, observed_at, waited_at, rate_before,
           last_headers, rpc, rate_slept, rate_error>>
hvars == <<hpc, max_retries, http_status, retry_after, http_attempts, http_slept, http_error,
           extra_status_forcelist, http_response>>
subconf == <<event_comments, event_tickets>>
subvars == <<spc, subconf, ncomments, tickets_cursor, comments_node, tickets_node,
             comments, rsvps>>
cvars == <<replay, cpc, calls, received>>
nvars == <<svars, rvars, hvars, subvars, cvars>>
vars == <<fvars, gerrit_user, xvars, nvars>>

\* ------------------------------------------------------------------------
\* GerritClient: cursor computation and command assembly
\* ------------------------------------------------------------------------
Versions == {<<2, 7>>, <<2, 8>>, <<2, 9>>, <<2, 10>>, <<3, 0>>}

FILTER_OPEN == "status:open"
FILTER_CLOSED == "status:closed"
FILTER_NONE == "None"

\* the causes of the BackendError of lines 358-360 and 396-398
VersionError == "BackendError: Invalid gerrit version"
PaginationError == "BackendError: Gerrit 2.9.0 does not support pagination"

\* next_retrieve_group_item that takes 2.9 for an offset-paginating version
next_retrieve_group_item_from29(last, entry) ==
    IF (version[1] = 2 /\ version[2] >= 9) \/ version[1] = 3
    THEN [raised |-> FALSE,
          value |-> IF last = NoneVal THEN IntVal(0) ELSE last]
    ELSE [raised |-> FALSE,
          value |-> IF entry # <<>> THEN KeyVal(entry[1].sortKey) ELSE NoneVal]

\* GerritClient.next_retrieve_group_item; entry is <<>> for None, else <<review>>
next_retrieve_group_item(last, entry) ==
    IF (version[1] = 2 /\ version[2] > 9) \/ version[1] = 3
    THEN [raised |-> FALSE,
          value |-> IF last = NoneVal THEN IntVal(0) ELSE last]
    ELSE IF version[1] = 2 /\ version[2] = 9
    THEN [raised |-> TRUE, value |-> NoneVal]
    ELSE [raised |-> FALSE,
          value |-> IF entry # <<>> THEN KeyVal(entry[1].sortKey) ELSE NoneVal]

\* get_gerrit_cmd that never gives a page token
get_gerrit_cmd_first_page(last, filter_) ==
    [user |-> gerrit_user, op |-> "query", limit |-> max_reviews,
     filter |-> filter_, page |-> [opt |-> "none", v |-> 0]]

\* GerritClient._get_gerrit_cmd: the assembled command, as a record of its parts.
\* page is "--start=<n>", "resume_sortkey:<k>" or absent.
get_gerrit_cmd(last, filter_) ==
    [user |-> gerrit_user,
     op |-> "query",
     limit |-> max_reviews,
     filter |-> filter_,
     page |-> IF last = NoneVal THEN [opt |-> "none", v |-> 0]
              ELSE IF (version[1] = 2 /\ version[2] >= 9) \/ version[1] = 3
              THEN [opt |-> "--start", v |-> last.v]
              ELSE [opt |-> "resume_sortkey", v |-> last.v]]

\* The remote Gerrit server answering a query command: the rows of the queried
\* partition that follow the page token, at most `limit` of them, then a stats row.
ServerRows(query) ==
    LET all == partitions[query.filter]
        from == query.page.v
        upto == Min(Len(all), from + query.limit)
        rows == SubSeq(all, from + 1, upto)
    IN Append(rows, [type |-> "stats", rowCount |-> Len(rows)])

\* Gerrit.parse_reviews: keeps the rows that carry a 'project' key
parse_reviews(raw_data) ==
    SelectSeq(raw_data, LAMBDA item : "project" \in DOMAIN item)

\* Gerrit._get_reviews on a command that the transport executes successfully
get_reviews(last, filter_) ==
    parse_reviews(ServerRows(get_gerrit_cmd(last, filter_)))

\* ------------------------------------------------------------------------
\* Gerrit._fetch_gerrit28: the dual-queue fetcher
\* ------------------------------------------------------------------------
\* PopsOpen with the comparison turned around: the older front is popped
PopsOpenOlder(ro, rc) ==
    IF ro # <<>> /\ rc # <<>>
    THEN ro[1].lastUpdated <= rc[1].lastUpdated
    ELSE rc = <<>>

\* PopsOpen with a strict comparison: on a tie the closed front is popped
PopsOpenStrict(ro, rc) ==
    IF ro # <<>> /\ rc # <<>>
    THEN ro[1].lastUpdated > rc[1].lastUpdated
    ELSE rc = <<>>

\* PopsOpen without the comparison: the open queue is drained first
PopsOpenFirst(ro, rc) == ro # <<>>

\* lines 219-231: TRUE when the open queue's front is popped
PopsOpen(ro, rc) ==
    IF ro # <<>> /\ rc # <<>>
    THEN ro[1].lastUpdated >= rc[1].lastUpdated
    ELSE rc = <<>>

\* StopsAt with a strict comparison: a review updated at the watermark passes
StopsAtStrict(updated) == updated < from_ut

\* lines 234, 265: the watermark test that ends the stream
StopsAt(updated) == updated <= from_ut

\* NeedsRefill with a strict comparison: a full page is taken for the last one
NeedsRefillStrict(queue, last_n) == queue = <<>> /\ last_n > max_reviews

\* lines 240, 244, 271: the test that asks for the next page
NeedsRefill(queue, last_n) == queue = <<>> /\ last_n >= max_reviews

\* Gerrit.fetch_items lines 120-123: the fetcher is chosen on client.version,
\* which runs the version command; the command may fail for good (RuntimeError)
\* and its output may not be a version (BackendError)
DetectVersion ==
    /\ backend = "gerrit" /\ pc = "version"
    /\ \E outcome \in {"ok", "RuntimeError", VersionError} :
          /\ pc' = IF outcome = "ok" THEN "start" ELSE "raised"
          /\ error' = IF outcome = "ok" THEN error ELSE outcome
    /\ UNCHANGED <<xvars, nvars>>
    /\ UNCHANGED <<backend, yielded, requests, gconf, gvars28, gvars1, mconf, mvars>>

\* RaisesOrResumes that swallows the error of a failed request
ResumesAnyway(ok, resume) == resume

\* lines 241-247 and 273-275: the error of a failed page request leaves the
\* generator, nothing catches it
RaisesOrResumes(ok, resume) == IF ok THEN resume ELSE "raised"

\* lines 211-216
Start28 ==
    /\ backend = "gerrit" /\ pc = "start" /\ version = <<2, 8>>
    /\ LET lio == next_retrieve_group_item(NoneVal, <<>>)
           lic == next_retrieve_group_item(NoneVal, <<>>)
       IN \E ok_open, ok_closed \in BOOLEAN :
          IF lio.raised
          THEN /\ pc' = "raised" /\ error' = PaginationError
               /\ UNCHANGED <<requests, gvars28>>
          ELSE IF ~ok_open
          THEN /\ pc' = "raised" /\ error' = "RuntimeError"
               /\ requests' = Append(requests, get_gerrit_cmd(lio.value, FILTER_OPEN))
               /\ last_item_open' = lio.value
               /\ last_item_closed' = lic.value
               /\ UNCHANGED <<reviews_open, reviews_closed, last_nreviews_open,
                              last_nreviews_closed, review_open, review_closed>>
          ELSE /\ requests' = requests \o <<get_gerrit_cmd(lio.value, FILTER_OPEN),
                                            get_gerrit_cmd(lic.value, FILTER_CLOSED)>>
               /\ last_item_open' = lio.value
               /\ last_item_closed' = lic.value
               /\ reviews_open' = get_reviews(lio.value, FILTER_OPEN)
               /\ IF ok_closed
                  THEN /\ reviews_closed' = get_reviews(lic.value, FILTER_CLOSED)
                       /\ last_nreviews_open' = Len(reviews_open')
                       /\ last_nreviews_closed' = Len(reviews_closed')
                       /\ pc' = "loop28" /\ error' = error
                  ELSE /\ pc' = "raised" /\ error' = "RuntimeError"
                       /\ UNCHANGED <<reviews_closed, last_nreviews_open,
                                      last_nreviews_closed>>
               /\ UNCHANGED <<review_open, review_closed>>
    /\ UNCHANGED <<xvars, nvars>>
    /\ UNCHANGED <<backend, yielded, gconf, gvars1, mconf, mvars>>

\* lines 218-238: the loop test, the pop, the watermark test and the yield
Pop28 ==
    /\ backend = "gerrit" /\ pc = "loop28"
    /\ IF reviews_open = <<>> /\ reviews_closed = <<>>
       THEN /\ pc' = "done"
            /\ UNCHANGED <<yielded, gvars28>>
       ELSE LET open == PopsOpen(reviews_open, reviews_closed)
                rv == IF open THEN Head(reviews_open) ELSE Head(reviews_closed)
            IN /\ IF open
                  THEN /\ reviews_open' = Tail(reviews_open)
                       /\ review_open' = <<rv>>
                       /\ UNCHANGED <<reviews_closed, review_closed>>
                  ELSE /\ reviews_closed' = Tail(reviews_closed)
                       /\ review_closed' = <<rv>>
                       /\ UNCHANGED <<reviews_open, review_open>>
               /\ IF StopsAt(rv.lastUpdated)
                  THEN pc' = "done" /\ yielded' = yielded
                  ELSE pc' = "refill28" /\ yielded' = Append(yielded, rv)
               /\ UNCHANGED <<last_item_open, last_item_closed,
                              last_nreviews_open, last_nreviews_closed>>
    /\ UNCHANGED <<xvars, nvars>>
    /\ UNCHANGED <<backend, requests, error, gconf, gvars1, mconf, mvars>>

\* lines 240-247: the refill of the queues, when the generator is resumed
Refill28 ==
    /\ backend = "gerrit" /\ pc = "refill28"
    /\ LET need_open == NeedsRefill(reviews_open, last_nreviews_open)
           need_closed == NeedsRefill(reviews_closed, last_nreviews_closed)
           lio == next_retrieve_group_item(last_item_open, review_open)
           lic == next_retrieve_group_item(last_item_closed, review_closed)
           cmd_open == get_gerrit_cmd(lio.value, FILTER_OPEN)
           cmd_closed == get_gerrit_cmd(lic.value, FILTER_CLOSED)
       IN \E ok_open, ok_closed \in BOOLEAN :
          /\ (~need_open => ok_open) /\ ((~need_closed \/ ~ok_open) => ok_closed)
          /\ IF need_open
             THEN /\ last_item_open' = lio.value
                  /\ IF ok_open
                     THEN /\ reviews_open' = get_reviews(lio.value, FILTER_OPEN)
                          /\ last_nreviews_open' = Len(reviews_open')
                     ELSE UNCHANGED <<reviews_open, last_nreviews_open>>
             ELSE UNCHANGED <<last_item_open, reviews_open, last_nreviews_open>>
          /\ IF need_closed /\ ok_open
             THEN /\ last_item_closed' = lic.value
                  /\ IF ok_closed
                     THEN /\ reviews_closed' = get_reviews(lic.value, FILTER_CLOSED)
                          /\ last_nreviews_closed' = Len(reviews_closed')
                     ELSE UNCHANGED <<reviews_closed, last_nreviews_closed>>
             ELSE UNCHANGED <<last_item_closed, reviews_closed, last_nreviews_closed>>
          /\ requests' = requests
                         \o (IF need_open THEN <<cmd_open>> ELSE <<>>)
                         \o (IF need_closed /\ ok_open THEN <<cmd_closed>> ELSE <<>>)
          /\ pc' = RaisesOrResumes(ok_open /\ ok_closed, "loop28")
          /\ error' = IF ok_open /\ ok_closed THEN error ELSE "RuntimeError"
    /\ UNCHANGED <<xvars, nvars>>
    /\ UNCHANGED <<backend, yielded, gconf, gvars1, review_open, review_closed, mconf, mvars>>

\* ------------------------------------------------------------------------
\* Gerrit._fetch_gerrit: the single-queue fetcher
\* ------------------------------------------------------------------------
\* lines 250-252
Start1 ==
    /\ backend = "gerrit" /\ pc = "start" /\ version # <<2, 8>>
    /\ LET li == next_retrieve_group_item(NoneVal, <<>>)
       IN \E ok \in BOOLEAN :
          IF li.raised
          THEN /\ pc' = "raised" /\ error' = PaginationError
               /\ UNCHANGED <<requests, gvars1>>
          ELSE /\ last_item' = li.value
               /\ requests' = Append(requests, get_gerrit_cmd(li.value, FILTER_NONE))
               /\ IF ok
                  THEN /\ reviews' = get_reviews(li.value, FILTER_NONE)
                       /\ last_nreviews' = Len(reviews')
                       /\ pc' = "loop1" /\ error' = error
                  ELSE /\ pc' = "raised" /\ error' = "RuntimeError"
                       /\ UNCHANGED <<reviews, last_nreviews>>
               /\ UNCHANGED review
    /\ UNCHANGED <<xvars, nvars>>
    /\ UNCHANGED <<backend, yielded, gconf, gvars28, mconf, mvars>>

\* lines 258-269: the loop test, the pop, the offset increment (a no-op on a
\* last_item that is None or a sortKey), the watermark test and the yield
Pop1 ==
    /\ backend = "gerrit" /\ pc = "loop1"
    /\ IF reviews = <<>>
       THEN /\ pc' = "done"
            /\ UNCHANGED <<yielded, gvars1>>
       ELSE LET rv == Head(reviews)
            IN /\ reviews' = Tail(reviews)
               /\ review' = <<rv>>
               /\ last_item' = IF last_item.t = "int"
                               THEN IntVal(last_item.v + 1) ELSE last_item
               /\ IF StopsAt(rv.lastUpdated)
                  THEN pc' = "done" /\ yielded' = yielded
                  ELSE pc' = "refill1" /\ yielded' = Append(yielded, rv)
               /\ UNCHANGED last_nreviews
    /\ UNCHANGED <<xvars, nvars>>
    /\ UNCHANGED <<backend, requests, error, gconf, gvars28, mconf, mvars>>

\* lines 271-275: the refill of the queue, when the generator is resumed
Refill1 ==
    /\ backend = "gerrit" /\ pc = "refill1"
    /\ LET need == NeedsRefill(reviews, last_nreviews)
           li == next_retrieve_group_item(last_item, review)
       IN \E ok \in BOOLEAN :
          /\ ~need => ok
          /\ IF need
             THEN /\ last_item' = li.value
                  /\ requests' = Append(requests, get_gerrit_cmd(li.value, FILTER_NONE))
                  /\ IF ok
                     THEN /\ reviews' = get_reviews(li.value, FILTER_NONE)
                          /\ last_nreviews' = Len(reviews')
                     ELSE UNCHANGED <<reviews, last_nreviews>>
             ELSE UNCHANGED <<last_item, requests, reviews, last_nreviews>>
          /\ pc' = RaisesOrResumes(ok, "loop1")
          /\ error' = IF ok THEN error ELSE "RuntimeError"
    /\ UNCHANGED <<xvars, nvars>>
    /\ UNCHANGED <<backend, yielded, gconf, gvars28, review, mconf, mvars>>

\* ------------------------------------------------------------------------
\* MeetupClient.events: the events walk
\* ------------------------------------------------------------------------
VPAST_EVENTS == "pastEvents"
VFUTURE_EVENTS == "upcomingEvents"
VEVENT_TYPES == <<VPAST_EVENTS, VFUTURE_EVENTS>>

NullCursor == [t |-> "null", v |-> 0]

\* FormatCursor that always gives the null cursor
FormatCursorNull(c) == NullCursor

\* line 482: 'null' stays as it is, any other cursor is wrapped in double quotes
FormatCursor(c) == IF c = NullCursor THEN c ELSE [t |-> "quoted", v |-> c.v]

\* datetime.strptime(..., '%Y-%m-%dT%H:%M%z'): the instant of a local time
\* written with its UTC offset
ParseDateTime(dt) == dt.hm - dt.tz

\* IsAfter that takes an event dated at the watermark as well
IsAtOrAfter(date) == date >= from_date

\* line 494: the test that expands and yields an event
IsAfter(date) == date > from_date

\* The Meetup server answering a list query: the edges of the partition that
\* follow the cursor, at most `first` of them, with the page information.
ServerEventsPage(event_type, first, after) ==
    LET all == group_events[event_type]
        off == after.v
        upto == Min(Len(all), off + first)
    IN [edges |-> [i \in 1..(upto - off) |->
                     [cursor |-> off + i,
                      node |-> [id |-> all[off + i].id,
                                dateTime |-> all[off + i].dateTime]]],
        pageInfo |-> [hasNextPage |-> upto < Len(all), endCursor |-> upto]]

\* The Meetup server answering the full query of one event
ServerEvent(event_id) ==
    LET all == group_events[VPAST_EVENTS] \o group_events[VFUTURE_EVENTS]
    IN CHOOSE e \in {all[i] : i \in 1..Len(all)} : e.id = event_id

\* lines 482-490: one list request, for the page at the running cursor
EventsPage ==
    /\ backend = "meetup" /\ pc = "page"
    /\ LET event_type == VEVENT_TYPES[event_idx + 1]
           c == FormatCursor(cursor)
       IN /\ cursor' = c
          /\ requests' = Append(requests, [query |-> "events", event_type |-> event_type,
                                           first |-> max_items, after |-> c])
          /\ \E ok \in BOOLEAN :
             IF ok /\ group_exists
             THEN /\ events_page' = ServerEventsPage(event_type, max_items, c)
                  /\ edge_i' = 1
                  /\ pc' = "edges" /\ error' = error
             ELSE /\ pc' = "raised"
                  /\ error' = IF ok THEN "Exception" ELSE "HTTPError"
                  /\ UNCHANGED <<events_page, edge_i>>
    /\ UNCHANGED <<xvars, nvars>>
    /\ UNCHANGED <<backend, yielded, gconf, gvars28, gvars1, mconf, event_idx>>

\* EventRequests that walks the rsvps of an event before its comments
EventRequestsRsvpsFirst(event_id, failed) ==
    <<[query |-> "event", id |-> event_id]>>
    \o (IF failed # "event"
        THEN <<[query |-> "tickets", id |-> event_id]>> ELSE <<>>)
    \o (IF failed \in {"none", "tickets"}
        THEN <<[query |-> "comments", id |-> event_id]>> ELSE <<>>)

\* line 495 and Meetup.fetch_items lines 289-293: the requests made for one
\* event, in order: its full detail, its comments, its rsvps; the request
\* that fails is the last one
EventRequests(event_id, failed) ==
    <<[query |-> "event", id |-> event_id]>>
    \o (IF failed # "event"
        THEN <<[query |-> "comments", id |-> event_id]>> ELSE <<>>)
    \o (IF failed \in {"none", "tickets"}
        THEN <<[query |-> "tickets", id |-> event_id]>> ELSE <<>>)

\* lines 491-495 and Meetup.fetch_items lines 286-296: one edge of the page: the
\* date test, the full request, then for the event that MeetupClient.events
\* yields the comments walk and the rsvps walk (each of one request at least,
\* logged as one request), and the yield to the caller; `failed` is the
\* request that fails for good
EventsEdge ==
    /\ backend = "meetup" /\ pc = "edges"
    /\ edge_i <= Len(events_page.edges)
    /\ LET event == events_page.edges[edge_i].node
           date == ParseDateTime(event.dateTime)
       IN /\ edge_i' = edge_i + 1
          /\ IF IsAfter(date)
             THEN \E failed \in {"none", "event", "comments", "tickets"} :
                  /\ requests' = requests \o EventRequests(event.id, failed)
                  /\ IF failed = "none"
                     THEN /\ yielded' = Append(yielded, ServerEvent(event.id))
                          /\ pc' = pc /\ error' = error
                     ELSE /\ yielded' = yielded
                          /\ pc' = "raised" /\ error' = "HTTPError"
             ELSE UNCHANGED <<requests, yielded, pc, error>>
    /\ UNCHANGED <<xvars, nvars>>
    /\ UNCHANGED <<backend, gconf, gvars28, gvars1, mconf, event_idx, cursor, events_page>>

\* HasNextPage that stops at a page whose last event is not after the watermark
HasNextPageAfterWatermark(page) ==
    /\ page.pageInfo.hasNextPage
    /\ page.edges # <<>>
    /\ ParseDateTime(page.edges[Len(page.edges)].node.dateTime) > from_date

\* HasNextPage that always asks for a further page
HasNextPageAlways(page) == TRUE

\* HasNextPage that never asks for a further page
HasNextPageNever(page) == FALSE

\* line 497: the page says whether a further page follows
HasNextPage(page) == page.pageInfo.hasNextPage

\* lines 497-504: after the last edge, the next page, the next event type or the end
EventsAdvance ==
    /\ backend = "meetup" /\ pc = "edges"
    /\ edge_i > Len(events_page.edges)
    /\ IF HasNextPage(events_page)
       THEN /\ cursor' = [t |-> "raw", v |-> events_page.pageInfo.endCursor]
            /\ pc' = "page"
            /\ UNCHANGED event_idx
       ELSE IF event_idx < Len(VEVENT_TYPES) - 1
       THEN /\ event_idx' = event_idx + 1
            /\ cursor' = NullCursor
            /\ pc' = "page"
       ELSE /\ pc' = "done"
            /\ UNCHANGED <<event_idx, cursor>>
    /\ UNCHANGED <<xvars, nvars>>
    /\ UNCHANGED <<backend, yielded, requests, error, gconf, gvars28, gvars1, mconf,
                   events_page, edge_i>>

\* the filters a caller hands to GerritClient.reviews: none, a supported one
\* (status:closed is tested like status:open) and one that is not supported
FILTER_MERGED == "status:merged"
Filters == {FILTER_NONE, FILTER_OPEN, FILTER_MERGED}

\* FilterSupported without the test of line 468: every filter is assembled
FilterSupportedAny(filter_) == TRUE

\* _get_gerrit_cmd line 468: no filter, or one of the two status filters
FilterSupported(filter_) ==
    filter_ = FILTER_NONE \/ filter_ \in {FILTER_OPEN, FILTER_CLOSED}

\* ------------------------------------------------------------------------
\* GerritClient.__execute: the command transport
\* ------------------------------------------------------------------------
MAX_RETRIES == 3
RETRY_WAIT == 60

Users == {"alice", "bob"}
Outputs == {"out1", "out2"}

NoPageOpt == [opt |-> "none", v |-> 0]
NoCmd == [user |-> "", op |-> "none", limit |-> 0, filter |-> FILTER_NONE,
          page |-> NoPageOpt]

\* GerritClient.version line 349: the version command
version_cmd ==
    [user |-> gerrit_user, op |-> "version", limit |-> 0, filter |-> FILTER_NONE,
     page |-> NoPageOpt]

\* values: None, the bytes of a command's output, and the two error objects
NoneResult == [kind |-> "None", data |-> "", msg |-> NoCmd]
Bytes(d) == [kind |-> "bytes", data |-> d, msg |-> NoCmd]
RuntimeError(c) == [kind |-> "RuntimeError", data |-> "", msg |-> c]
ArchiveError(key) == [kind |-> "ArchiveError", data |-> "", msg |-> key]

\* GerritClient.sanitize_for_archive: the user name before '@' becomes xxxxx
sanitize_for_archive(c) == [c EXCEPT !.user = "xxxxx"]

\* Archive.store: the value is kept under the key
ArchiveStore(db, key, value) ==
    [k \in (DOMAIN db) \cup {key} |-> IF k = key THEN value ELSE db[k]]

\* Archive.retrieve: the value kept under the key; an unknown key is an error
ArchiveRetrieve(db, key) ==
    IF key \in DOMAIN db
    THEN [raised |-> FALSE, value |-> db[key]]
    ELSE [raised |-> TRUE, value |-> ArchiveError(key)]

\* isinstance(value, RuntimeError), lines 435 and 462
IsRuntimeError(value) == value.kind = "RuntimeError"

\* ReplayMode that ignores from_archive: every command goes to the remote
ReplayModeIgnored == FALSE

\* line 422: the mode test of __execute
ReplayMode == from_archive

\* RetryLoopRuns off by one: one more attempt than MAX_RETRIES
RetryLoopRunsOnceMore(n) == n <= MAX_RETRIES

\* line 446: the loop test of __execute_from_remote
RetryLoopRuns(n) == n < MAX_RETRIES

\* RetrySleep that counts the failed attempt itself: the first wait is RETRY_WAIT
RetrySleepNext(n) == RETRY_WAIT * (n + 1)

\* line 452: the sleep after a failed attempt
RetrySleep(n) == RETRY_WAIT * n

\* StoresOutcome that archives results only, not the error of a failed command
StoresOnlyResults == has_archive /\ result.kind = "bytes"

\* line 458: the test that guards archive.store
StoresOutcome == has_archive

\* execute_from_archive without the isinstance test: a stored error is returned
execute_from_archive_returning(c) ==
    ArchiveRetrieve(archive, sanitize_for_archive(c))

\* execute_from_archive that swallows the lookup failure and returns None
execute_from_archive_lenient(c) ==
    LET got == ArchiveRetrieve(archive, sanitize_for_archive(c))
    IN IF got.raised THEN [raised |-> FALSE, value |-> NoneResult]
       ELSE [raised |-> IsRuntimeError(got.value), value |-> got.value]

\* lines 429-438: __execute_from_archive, what it raises or returns
execute_from_archive(c) ==
    LET got == ArchiveRetrieve(archive, sanitize_for_archive(c))
    IN IF got.raised THEN got
       ELSE [raised |-> IsRuntimeError(got.value), value |-> got.value]

\* the commands a client issues: the version command and the first-page queries
ClientCmds == {version_cmd, get_gerrit_cmd(NoneVal, FILTER_OPEN)}

Finished == xpc \in {"idle", "returned", "raised"}

NoRecord == [cmd |-> NoCmd, mode |-> "none", value |-> NoneResult]

\* a client is built over the archive that earlier clients wrote
NewClient ==
    /\ Finished
    /\ from_archive' \in BOOLEAN
    /\ has_archive' \in BOOLEAN
    /\ from_archive' => has_archive'
    /\ gerrit_user' \in Users
    /\ xpc' = "idle" /\ cmd' = NoCmd
    /\ retries' = 0 /\ result' = NoneResult /\ response' = NoneResult
    /\ attempts' = <<>> /\ slept' = <<>> /\ stores' = <<>> /\ retrieves' = <<>>
    /\ UNCHANGED <<archive, recorded, fvars, nvars>>

\* lines 422-423 and 429-438: a command in replay mode
ExecuteFromArchive ==
    /\ Finished /\ ReplayMode
    /\ \E c \in ClientCmds :
          LET got == execute_from_archive(c)
          IN /\ cmd' = c
             /\ retrieves' = <<sanitize_for_archive(c)>>
             /\ response' = got.value
             /\ xpc' = IF got.raised THEN "raised" ELSE "returned"
    /\ retries' = 0 /\ result' = NoneResult
    /\ attempts' = <<>> /\ slept' = <<>> /\ stores' = <<>>
    /\ UNCHANGED <<xconf, archive, recorded, gerrit_user, fvars, nvars>>

\* lines 424-425 and 443-444: a command in recording mode starts
ExecuteFromRemote ==
    /\ Finished /\ ~ReplayMode
    /\ \E c \in ClientCmds : cmd' = c
    /\ retries' = 0 /\ result' = NoneResult /\ response' = NoneResult
    /\ attempts' = <<>> /\ slept' = <<>> /\ stores' = <<>> /\ retrieves' = <<>>
    /\ xpc' = "attempt"
    /\ UNCHANGED <<xconf, archive, recorded, gerrit_user, fvars, nvars>>

\* _get_gerrit_cmd lines 468-470: the error of a filter that is not supported
FilterError(filter_) == [kind |-> "BackendError", data |-> filter_, msg |-> NoCmd]

\* GerritClient.reviews lines 373-379: the command is assembled, which raises
\* on an unsupported filter, and only then handed to __execute
Reviews ==
    /\ Finished
    /\ \E f \in Filters :
          LET c == get_gerrit_cmd(NoneVal, f)
              got == execute_from_archive(c)
          IN IF ~FilterSupported(f)
             THEN /\ response' = FilterError(f)
                  /\ cmd' = NoCmd /\ xpc' = "idle" /\ retrieves' = <<>>
             ELSE IF ReplayMode
             THEN /\ cmd' = c
                  /\ retrieves' = <<sanitize_for_archive(c)>>
                  /\ response' = got.value
                  /\ xpc' = IF got.raised THEN "raised" ELSE "returned"
             ELSE /\ cmd' = c /\ xpc' = "attempt"
                  /\ response' = NoneResult /\ retrieves' = <<>>
    /\ retries' = 0 /\ result' = NoneResult
    /\ attempts' = <<>> /\ slept' = <<>> /\ stores' = <<>>
    /\ UNCHANGED <<xconf, archive, recorded, gerrit_user, fvars, nvars>>

\* lines 446-453: one run of the subprocess
Attempt ==
    /\ xpc = "attempt" /\ RetryLoopRuns(retries)
    /\ \/ \E out \in Outputs :
            /\ result' = Bytes(out)
            /\ attempts' = Append(attempts, "ok")
            /\ xpc' = "after_loop"
            /\ UNCHANGED <<retries, slept>>
       \/ /\ attempts' = Append(attempts, "CalledProcessError")
          /\ slept' = Append(slept, RetrySleep(retries))
          /\ retries' = retries + 1
          /\ UNCHANGED <<result, xpc>>
    /\ UNCHANGED <<xconf, archive, recorded, cmd, response, stores, retrieves,
                   gerrit_user, fvars, nvars>>

\* lines 455-460: after the loop, the error object and the archive entry
Finalize ==
    /\ \/ xpc = "after_loop"
       \/ xpc = "attempt" /\ ~RetryLoopRuns(retries)
    /\ LET res == IF result = NoneResult THEN RuntimeError(cmd) ELSE result
           key == sanitize_for_archive(cmd)
       IN /\ result' = res
          /\ IF StoresOutcome
             THEN /\ archive' = ArchiveStore(archive, key, res)
                  /\ stores' = Append(stores, [key |-> key, value |-> res])
             ELSE UNCHANGED <<archive, stores>>
    /\ xpc' = "deliver"
    /\ UNCHANGED <<xconf, recorded, cmd, retries, response, attempts, slept,
                   retrieves, gerrit_user, fvars, nvars>>

\* lines 462-465: the outcome is raised or returned
Deliver ==
    /\ xpc = "deliver"
    /\ response' = result
    /\ xpc' = IF IsRuntimeError(result) THEN "raised" ELSE "returned"
    /\ recorded' = IF has_archive
                   THEN [cmd |-> cmd, mode |-> xpc', value |-> result]
                   ELSE recorded
    /\ UNCHANGED <<xconf, archive, cmd, retries, result, attempts, slept, stores,
                   retrieves, gerrit_user, fvars, nvars>>

\* ------------------------------------------------------------------------
\* Initial states
\* ------------------------------------------------------------------------
Times == 1..MaxTime
Watermarks == 0..MaxTime

\* the reviews of one partition, given their lastUpdated values in server order
MkReviews(ts, status) ==
    [i \in 1..Len(ts) |-> [project |-> "p", number |-> i, status |-> status,
                          lastUpdated |-> ts[i], sortKey |-> i]]

InitIdle28 ==
    /\ reviews_open = <<>> /\ reviews_closed = <<>>
    /\ last_item_open = NoneVal /\ last_item_closed = NoneVal
    /\ last_nreviews_open = 0 /\ last_nreviews_closed = 0
    /\ review_open = <<>> /\ review_closed = <<>>

InitIdle1 ==
    /\ reviews = <<>> /\ last_item = NoneVal /\ last_nreviews = 0 /\ review = <<>>

NoPage == [edges |-> <<>>, pageInfo |-> [hasNextPage |-> FALSE, endCursor |-> 0]]

InitIdleExec ==
    /\ from_archive = FALSE /\ has_archive = FALSE /\ archive = <<>>
    /\ xpc = "idle" /\ cmd = NoCmd /\ retries = 0
    /\ result = NoneResult /\ response = NoneResult
    /\ attempts = <<>> /\ slept = <<>> /\ stores = <<>> /\ retrieves = <<>>
    /\ recorded = NoRecord

InitIdleMeetup ==
    /\ event_idx = 0 /\ cursor = NullCursor /\ events_page = NoPage /\ edge_i = 1

NoHeaders == [remaining |-> NoneVal, reset |-> NoneVal]
NoRate == [rate_limit |-> NoneVal, rate_limit_reset_ts |-> NoneVal]

InitIdleClient ==
    /\ replay = FALSE /\ cpc = "idle" /\ calls = <<>> /\ received = NoHeaders

InitIdleSanitize ==
    /\ descriptors = <<>> /\ sanitized = <<>>

InitIdleRate ==
    /\ subclass = "MockedClient" /\ sleep_for_rate = FALSE /\ min_rate_to_sleep = 0
    /\ rate_limit = NoneVal /\ rate_limit_reset_ts = NoneVal
    /\ now = 0 /\ observed_at = 0 /\ waited_at = 0
    /\ rate_before = NoRate /\ last_headers = NoHeaders
    /\ rpc = "idle" /\ rate_slept = <<>> /\ rate_error = "none"

InitIdleHttp ==
    /\ hpc = "idle" /\ max_retries = 0 /\ http_status = 200 /\ retry_after = 0
    /\ http_attempts = 0 /\ http_slept = <<>> /\ http_error = "none"
    /\ extra_status_forcelist = {} /\ http_response = NoneVal

NoNode == [count |-> 0, edges |-> <<>>,
           pageInfo |-> [hasNextPage |-> FALSE, endCursor |-> 0]]

InitIdleSub ==
    /\ spc = "idle" /\ event_comments = <<>> /\ event_tickets = <<>>
    /\ ncomments = 0 /\ tickets_cursor = NullCursor
    /\ comments_node = NoNode /\ tickets_node = NoNode
    /\ comments = <<>> /\ rsvps = <<>>

\* the fetch engines and the command transport at rest
InitIdleFetch ==
    /\ backend = "gerrit" /\ pc = "start"
    /\ yielded = <<>> /\ requests = <<>> /\ error = "none"
    /\ version = <<2, 8>> /\ max_reviews = MAX_REVIEWS /\ from_ut = 0
    /\ partitions = <<>>
    /\ InitIdle28 /\ InitIdle1
    /\ from_date = 0 /\ group_exists = FALSE
    /\ group_events = <<>> /\ InitIdleMeetup
    /\ gerrit_user = "alice"
    /\ InitIdleExec

\* the two partitions of a server: a list of at most MaxLen items cut in two
Splits(S) ==
    UNION {{<<SubSeq(a, 1, k), SubSeq(a, k + 1, Len(a))>> : k \in 0..Len(a)} :
              a \in SeqsUpTo(S, MaxLen)}

\* Gerrit.__init__ line 87 clamps max_reviews to at least 1
InitGerrit ==
    /\ backend = "gerrit" /\ pc = "version"
    /\ yielded = <<>> /\ requests = <<>> /\ error = "none"
    /\ gerrit_user = "alice"
    /\ version \in Versions
    /\ max_reviews \in {Max(1, m) : m \in 0..MaxPage}
    /\ from_ut \in Watermarks
    /\ IF version = <<2, 8>>
       THEN \E oc \in Splits(Times) :
               partitions = [f \in {FILTER_OPEN, FILTER_CLOSED} |->
                               IF f = FILTER_OPEN THEN MkReviews(oc[1], "open")
                               ELSE MkReviews(oc[2], "closed")]
       ELSE \E a \in SeqsUpTo(Times, MaxLen) :
               partitions = [f \in {FILTER_NONE} |-> MkReviews(a, "any")]
    /\ InitIdle28 /\ InitIdle1
    /\ from_date = 0 /\ max_items = 1 /\ group_exists = FALSE
    /\ group_events = <<>> /\ InitIdleMeetup
    /\ InitIdleExec
    /\ InitIdleSanitize /\ InitIdleClient /\ InitIdleRate /\ InitIdleHttp /\ InitIdleSub

\* the dual-queue scenario: one page per partition, watermark 30
InitScenario28 ==
    /\ backend = "gerrit" /\ pc = "version"
    /\ yielded = <<>> /\ requests = <<>> /\ error = "none"
    /\ gerrit_user = "alice"
    /\ version = <<2, 8>>
    /\ max_reviews \in {2, MAX_REVIEWS}
    /\ from_ut = 30
    /\ partitions = [f \in {FILTER_OPEN, FILTER_CLOSED} |->
                       IF f = FILTER_OPEN THEN MkReviews(<<50, 40>>, "open")
                       ELSE MkReviews(<<45, 10>>, "closed")]
    /\ InitIdle28 /\ InitIdle1
    /\ from_date = 0 /\ max_items = 1 /\ group_exists = FALSE
    /\ group_events = <<>> /\ InitIdleMeetup
    /\ InitIdleExec
    /\ InitIdleSanitize /\ InitIdleClient /\ InitIdleRate /\ InitIdleHttp /\ InitIdleSub

\* the events of one partition, given their instants in server order; ids
\* follow `base` and dateTime is written with the group's UTC offset tz
MkEvents(ts, base, tz) ==
    [i \in 1..Len(ts) |-> [id |-> base + i,
                          dateTime |-> [hm |-> ts[i] + tz, tz |-> tz]]]

TzOffsets == {0, 1}

InitMeetup ==
    /\ backend = "meetup" /\ pc = "page"
    /\ yielded = <<>> /\ requests = <<>> /\ error = "none"
    /\ from_date \in Watermarks
    /\ max_items \in 1..MaxPage
    /\ group_exists \in BOOLEAN
    /\ \E pu \in Splits(Times), tz \in TzOffsets :
          /\ ~group_exists => (pu = <<<<>>, <<>>>> /\ tz = 0)
          /\ group_events = [ty \in {VPAST_EVENTS, VFUTURE_EVENTS} |->
                               IF ty = VPAST_EVENTS THEN MkEvents(pu[1], 0, tz)
                               ELSE MkEvents(pu[2], Len(pu[1]), tz)]
    /\ InitIdleMeetup
    /\ gerrit_user = "alice" /\ version = <<2, 8>> /\ max_reviews = 1 /\ from_ut = 0
    /\ partitions = <<>>
    /\ InitIdle28 /\ InitIdle1
    /\ InitIdleExec
    /\ InitIdleSanitize /\ InitIdleClient /\ InitIdleRate /\ InitIdleHttp /\ InitIdleSub

Init == InitGerrit \/ InitScenario28 \/ InitMeetup

Next ==
    \/ DetectVersion
    \/ Start28 \/ Pop28 \/ Refill28
    \/ Start1 \/ Pop1 \/ Refill1
    \/ EventsPage \/ EventsEdge \/ EventsAdvance

Spec == Init /\ [][Next]_vars

\* the caller keeps pulling items: an enabled step of the fetch is taken
FairSpec == Spec /\ WF_vars(Next)

\* the command transport alone: clients over one archive, one command at a time
InitExec ==
    /\ backend = "gerrit" /\ pc = "start"
    /\ yielded = <<>> /\ requests = <<>> /\ error = "none"
    /\ version = <<2, 8>> /\ max_reviews = MAX_REVIEWS /\ from_ut = 0
    /\ partitions = <<>>
    /\ InitIdle28 /\ InitIdle1
    /\ from_date = 0 /\ max_items = 1 /\ group_exists = FALSE
    /\ group_events = <<>> /\ InitIdleMeetup
    /\ gerrit_user \in Users
    /\ from_archive \in BOOLEAN /\ has_archive \in BOOLEAN
    /\ from_archive => has_archive
    /\ archive = <<>>
    /\ xpc = "idle" /\ cmd = NoCmd /\ retries = 0
    /\ result = NoneResult /\ response = NoneResult
    /\ attempts = <<>> /\ slept = <<>> /\ stores = <<>> /\ retrieves = <<>>
    /\ recorded = NoRecord
    /\ InitIdleSanitize /\ InitIdleClient /\ InitIdleRate /\ InitIdleHttp /\ InitIdleSub

NextExec ==
    \/ NewClient \/ ExecuteFromArchive \/ ExecuteFromRemote
    \/ Attempt \/ Finalize \/ Deliver \/ Reviews

SpecExec == InitExec /\ [][NextExec]_vars

\* ------------------------------------------------------------------------
\* sanitize_for_archive: the archive key of a request descriptor
\* ------------------------------------------------------------------------
\* A command line is a sequence of characters: the space, the at sign, and
\* runs of other characters (ssh, -p, a host name, ...) taken as one character.
SP == " "
AT == "@"

UserChars == {"a", "b", AT}

\* SSH user names: words without whitespace
UserNames == SeqsUpTo(UserChars, MaxUser)

\* ssh_opts, lines 327-332: empty, or -i with the path of a private key
SshOpts == {<<>>, <<"-i", SP, "key", SP>>, <<"-i", SP, "k", AT, "d", SP>>}

\* GerritClient.__init__ lines 334-340 and the callers of __execute: the
\* command line of a client of `user`, for the gerrit command `op`
gerrit_cmd(ssh_opts, user, op) ==
    <<"ssh", SP>> \o ssh_opts \o <<SP, "-p", SP, "29418", SP>> \o user
       \o <<AT, "host">> \o <<SP, "gerrit", SP>> \o <<SP, op, SP>>

\* length of the longest prefix of s without a space
RunLen(s) ==
    CHOOSE n \in 0..Len(s) :
       /\ \A i \in 1..n : s[i] # SP
       /\ n = Len(s) \/ s[n + 1] = SP

\* sanitized_cmd that leaves the command as it is
sanitized_cmd_verbatim(s) == s

\* GerritClient.sanitize_for_archive line 415: re.sub(r" \S*@", ' xxxxx@', cmd),
\* every leftmost match of a space and the longest run of non-space characters
\* that ends with an at sign is replaced
RECURSIVE sanitized_cmd(_)
sanitized_cmd(s) ==
    IF s = <<>> THEN <<>>
    ELSE IF Head(s) # SP THEN <<Head(s)>> \o sanitized_cmd(Tail(s))
    ELSE LET rest == Tail(s)
             ats == {i \in 1..RunLen(rest) : rest[i] = AT}
         IN IF ats = {} THEN <<SP>> \o sanitized_cmd(rest)
            ELSE LET j == CHOOSE i \in ats : \A k \in ats : k <= i
                 IN <<SP, "xxxxx", AT>> \o sanitized_cmd(SubSeq(rest, j + 1, Len(rest)))

PKEY_OAUTH2 == "Authorization"
HCONTENT_TYPE == "Content-Type"

Tokens == {"token1", "token2"}
Queries == {"events", "event", "comments", "tickets"}

\* MeetupClient._fetch lines 567-580: the request of a query
meetup_request(api_token, query) ==
    [url |-> "MEETUP_API_URL",
     headers |-> [h \in {PKEY_OAUTH2, HCONTENT_TYPE} |->
                    IF h = PKEY_OAUTH2 THEN <<"Bearer", api_token>>
                    ELSE "application/json"],
     payload |-> query]

\* MeetupClient.sanitize_for_archive: the Authorization header is dropped
meetup_sanitize_for_archive(url, headers, payload) ==
    [url |-> url,
     headers |-> [h \in (DOMAIN headers) \ {PKEY_OAUTH2} |-> headers[h]],
     payload |-> payload]

\* two Gerrit clients that differ in their user issue the same command; a
\* behaviour compares one pair of clients
SanitizeGerrit ==
    /\ descriptors = <<>>
    /\ \E u1, u2 \in UserNames, o \in SshOpts, op \in {"version", "query"} :
          /\ descriptors' = <<[client |-> "gerrit", credential |-> u1,
                               request |-> gerrit_cmd(o, u1, op)],
                              [client |-> "gerrit", credential |-> u2,
                               request |-> gerrit_cmd(o, u2, op)]>>
          /\ sanitized' = <<sanitized_cmd(gerrit_cmd(o, u1, op)),
                            sanitized_cmd(gerrit_cmd(o, u2, op))>>
    /\ UNCHANGED <<fvars, gerrit_user, xvars, rvars, hvars, subvars, cvars>>

\* two Meetup clients that differ in their token issue the same query
SanitizeMeetup ==
    /\ descriptors = <<>>
    /\ \E t1, t2 \in Tokens, q \in Queries :
          LET r1 == meetup_request(t1, q)
              r2 == meetup_request(t2, q)
          IN /\ descriptors' = <<[client |-> "meetup", credential |-> t1, request |-> r1],
                                 [client |-> "meetup", credential |-> t2, request |-> r2]>>
             /\ sanitized' = <<meetup_sanitize_for_archive(r1.url, r1.headers, r1.payload),
                               meetup_sanitize_for_archive(r2.url, r2.headers, r2.payload)>>
    /\ UNCHANGED <<fvars, gerrit_user, xvars, rvars, hvars, subvars, cvars>>

InitSanitize ==
    /\ InitIdleFetch /\ max_items = 1
    /\ InitIdleSanitize /\ InitIdleClient /\ InitIdleRate /\ InitIdleHttp /\ InitIdleSub

NextSanitize == SanitizeGerrit \/ SanitizeMeetup

SpecSanitize == InitSanitize /\ [][NextSanitize]_vars

\* ------------------------------------------------------------------------
\* RateLimitHandler: the rate state and the rate-limit wait
\* ------------------------------------------------------------------------
\* `now` is the clock when a handler call starts; Tick is any passing of time
\* between two calls, the time slept included.
Subclasses == {"MockedClient", "MeetupClient"}

Quotas == 0..MaxQuota
ResetValues == (-1)..MaxReset

\* a header value is a string of digits; int() gives its number
StrVal(n) == [t |-> "str", v |-> n]
int(h) == IntVal(h.v)

\* the quota headers a response may carry; NoneVal: the header is absent
QuotaHeaders ==
    [remaining : {NoneVal} \cup {StrVal(q) : q \in Quotas},
     reset : {NoneVal} \cup {StrVal(r) : r \in ResetValues}]

RateState == [rate_limit |-> rate_limit, rate_limit_reset_ts |-> rate_limit_reset_ts]

\* update_rate_limit that keeps the previous value of an absent header
update_rate_limit_keeping(headers) ==
    [rate_limit |-> IF headers.remaining = NoneVal THEN rate_limit
                    ELSE int(headers.remaining),
     rate_limit_reset_ts |-> IF headers.reset = NoneVal THEN rate_limit_reset_ts
                             ELSE int(headers.reset)]

\* RateLimitHandler.update_rate_limit: the rate state a response leaves
update_rate_limit(headers) ==
    [rate_limit |-> IF headers.remaining = NoneVal THEN NoneVal
                    ELSE int(headers.remaining),
     rate_limit_reset_ts |-> IF headers.reset = NoneVal THEN NoneVal
                             ELSE int(headers.reset)]

\* base_calculate_time_to_reset that answers zero seconds
base_calculate_time_to_reset_zero == [raised |-> "none", value |-> 0]

\* RateLimitHandler.calculate_time_to_reset: left to the subclass
base_calculate_time_to_reset == [raised |-> "NotImplementedError", value |-> 0]

\* calculate_time_to_reset that takes the reset value for an instant
calculate_time_to_reset_until ==
    IF rate_limit_reset_ts = NoneVal THEN [raised |-> "TypeError", value |-> 0]
    ELSE [raised |-> "none", value |-> Max(0, rate_limit_reset_ts.v - now)]

\* MeetupClient.calculate_time_to_reset lines 455-459; None < 0 is a TypeError
calculate_time_to_reset ==
    IF rate_limit_reset_ts = NoneVal THEN [raised |-> "TypeError", value |-> 0]
    ELSE [raised |-> "none",
          value |-> IF rate_limit_reset_ts.v < 0 THEN 0 ELSE rate_limit_reset_ts.v]

\* the method the client's class resolves calculate_time_to_reset to
time_to_reset ==
    IF subclass = "MeetupClient" THEN calculate_time_to_reset
    ELSE base_calculate_time_to_reset

\* QuotaIsLow that takes an unknown quota for an exhausted one
QuotaIsLowOrUnknown == rate_limit = NoneVal \/ rate_limit.v <= min_rate_to_sleep

\* sleep_for_rate_limit: the quota is known and at or below the floor
QuotaIsLow == rate_limit # NoneVal /\ rate_limit.v <= min_rate_to_sleep

\* RateStateAfterSleep that keeps the state the wait decided on
RateStateAfterSleepKept == RateState

\* sleep_for_rate_limit, after time.sleep: both values are reset to None
RateStateAfterSleep == NoRate

\* a response is observed
UpdateRateLimit ==
    /\ \E headers \in QuotaHeaders :
          /\ last_headers' = headers
          /\ rate_limit' = update_rate_limit(headers).rate_limit
          /\ rate_limit_reset_ts' = update_rate_limit(headers).rate_limit_reset_ts
    /\ rate_before' = RateState
    /\ observed_at' = now
    /\ rpc' = "updated" /\ rate_slept' = <<>> /\ rate_error' = "none"
    /\ UNCHANGED <<rconf, now, waited_at>>
    /\ UNCHANGED <<fvars, gerrit_user, xvars, svars, hvars, subvars, cvars>>

\* RateLimitHandler.sleep_for_rate_limit: the wait made before a request. With
\* throttling disabled and a low quota it does not sleep; whether it then
\* returns or signals the exhausted quota is left open.
sleep_for_rate_limit ==
    /\ rate_before' = RateState
    /\ waited_at' = now
    /\ IF ~QuotaIsLow
       THEN /\ rpc' = "returned" /\ rate_slept' = <<>> /\ rate_error' = "none"
            /\ UNCHANGED <<rate_limit, rate_limit_reset_ts>>
       ELSE IF time_to_reset.raised # "none"
       THEN /\ rpc' = "raised" /\ rate_slept' = <<>>
            /\ rate_error' = time_to_reset.raised
            /\ UNCHANGED <<rate_limit, rate_limit_reset_ts>>
       ELSE IF sleep_for_rate
       THEN /\ rpc' = "returned" /\ rate_slept' = <<Max(0, time_to_reset.value)>>
            /\ rate_error' = "none"
            /\ rate_limit' = RateStateAfterSleep.rate_limit
            /\ rate_limit_reset_ts' = RateStateAfterSleep.rate_limit_reset_ts
       ELSE /\ \E e \in {"none", "RateLimitError"} :
                  /\ rate_error' = e
                  /\ rpc' = IF e = "none" THEN "returned" ELSE "raised"
            /\ rate_slept' = <<>>
            /\ UNCHANGED <<rate_limit, rate_limit_reset_ts>>
    /\ UNCHANGED <<rconf, now, observed_at, last_headers>>

\* a rate-limit wait, called on the handler
SleepForRateLimit ==
    /\ sleep_for_rate_limit
    /\ UNCHANGED <<fvars, gerrit_user, xvars, svars, hvars, subvars, cvars>>

\* time passes
Tick ==
    /\ now < MaxClock
    /\ now' = now + 1
    /\ UNCHANGED <<rconf, rate_limit, rate_limit_reset_ts, observed_at, waited_at, rate_before,
                   last_headers, rpc, rate_slept, rate_error>>
    /\ UNCHANGED <<fvars, gerrit_user, xvars, svars, hvars, subvars, cvars>>

\* setup_rate_limit_handler: a client of either class, throttling or not
InitRate ==
    /\ InitIdleFetch /\ max_items = 1
    /\ InitIdleSanitize /\ InitIdleClient /\ InitIdleHttp /\ InitIdleSub
    /\ subclass \in Subclasses
    /\ sleep_for_rate \in BOOLEAN
    /\ min_rate_to_sleep \in Quotas
    /\ rate_limit = NoneVal /\ rate_limit_reset_ts = NoneVal
    /\ now = 0 /\ observed_at = 0 /\ waited_at = 0
    /\ rate_before = NoRate /\ last_headers = NoHeaders
    /\ rpc = "idle" /\ rate_slept = <<>> /\ rate_error = "none"

NextRate == UpdateRateLimit \/ SleepForRateLimit \/ Tick

SpecRate == InitRate /\ [][NextRate]_vars

\* ------------------------------------------------------------------------
\* MeetupClient._fetch: the rate-limit wait and the request
\* ------------------------------------------------------------------------
MaxRequests == 2

\* the number of _fetch calls made so far
Issued == Len(SelectSeq(calls, LAMBDA c : c = "_fetch"))

\* WaitsBeforeRequest that ignores replay mode
WaitsBeforeRequestAlways == TRUE

\* line 574: the rate-limit wait is made outside replay mode only
WaitsBeforeRequest == ~replay

\* MeetupClient._fetch lines 560-575: the headers are built and, outside replay
\* mode, the rate-limit wait is made; an error of the wait leaves _fetch
ClientWait ==
    /\ cpc \in {"idle", "returned", "raised"}
    /\ Issued < MaxRequests
    /\ IF WaitsBeforeRequest
       THEN /\ sleep_for_rate_limit
            /\ calls' = calls \o <<"_fetch", "sleep_for_rate_limit">>
            /\ cpc' = IF rpc' = "raised" THEN "raised" ELSE "send"
       ELSE /\ calls' = Append(calls, "_fetch")
            /\ cpc' = "send"
            /\ UNCHANGED rvars
    /\ UNCHANGED <<replay, received>>
    /\ UNCHANGED <<fvars, gerrit_user, xvars, svars, hvars, subvars>>

\* lines 577-582: the request goes through HttpClient.fetch and the body of its
\* response is returned, or the error of the transport is raised; the rate
\* state is not touched
ClientSend ==
    /\ cpc = "send"
    /\ calls' = Append(calls, "fetch")
    /\ \/ \E headers \in QuotaHeaders :
            /\ received' = headers
            /\ cpc' = "returned"
       \/ /\ cpc' = "raised"
          /\ UNCHANGED received
    /\ UNCHANGED <<replay, rvars>>
    /\ UNCHANGED <<fvars, gerrit_user, xvars, svars, hvars, subvars>>

\* MeetupClient.__init__: a Meetup client, throttling or not; from_archive is
\* the attribute of HttpClient that _fetch reads
InitClient ==
    /\ InitIdleFetch /\ max_items = 1
    /\ InitIdleSanitize /\ InitIdleHttp /\ InitIdleSub
    /\ subclass = "MeetupClient"
    /\ sleep_for_rate \in BOOLEAN
    /\ min_rate_to_sleep \in Quotas
    /\ rate_limit = NoneVal /\ rate_limit_reset_ts = NoneVal
    /\ now = 0 /\ observed_at = 0 /\ waited_at = 0
    /\ rate_before = NoRate /\ last_headers = NoHeaders
    /\ rpc = "idle" /\ rate_slept = <<>> /\ rate_error = "none"
    /\ replay \in BOOLEAN
    /\ cpc = "idle" /\ calls = <<>> /\ received = NoHeaders

\* before the first _fetch the owner of the client may refresh the rate state
\* from a response it fetched itself, as lines 308-309 of the test do
ClientObserve ==
    /\ cpc = "idle" /\ rpc = "idle"
    /\ UpdateRateLimit

NextClient == ClientObserve \/ ClientWait \/ ClientSend

SpecClient == InitClient /\ [][NextClient]_vars

\* ------------------------------------------------------------------------
\* Meetup.fetch_items lines 292-293: the comments and the rsvps of one event
\* ------------------------------------------------------------------------
\* The Meetup server answering a comments query: the total count and the
\* edges that follow the offset, at most `limit` of them.
ServerComments(offset, limit) ==
    LET all == event_comments
        upto == Min(Len(all), offset + limit)
    IN [count |-> Len(all),
        edges |-> [i \in 1..(upto - offset) |-> [node |-> all[offset + i]]],
        pageInfo |-> [hasNextPage |-> FALSE, endCursor |-> 0]]

\* The Meetup server answering a tickets query: the edges that follow the
\* cursor, at most `first` of them, with the page information.
ServerTickets(first, after) ==
    LET all == event_tickets
        off == after.v
        upto == Min(Len(all), off + first)
    IN [count |-> Len(all),
        edges |-> [i \in 1..(upto - off) |-> [node |-> all[off + i]]],
        pageInfo |-> [hasNextPage |-> upto < Len(all), endCursor |-> upto]]

NodesOf(edges) == [i \in 1..Len(edges) |-> edges[i].node]

\* MeetupClient.comments line 522: the test that ends the comments walk
CommentsDone(n, node) == n >= node.count

\* MeetupClient.comments lines 513-517: the request of the page at the offset
CommentsFetch ==
    /\ spc = "comments_fetch"
    /\ \E ok \in BOOLEAN :
          IF ok
          THEN /\ comments_node' = ServerComments(ncomments, max_items)
               /\ spc' = "comments_yield"
          ELSE /\ spc' = "raised"
               /\ UNCHANGED comments_node
    /\ UNCHANGED <<subconf, ncomments, tickets_cursor, tickets_node, comments, rsvps>>
    /\ UNCHANGED <<fvars, gerrit_user, xvars, svars, rvars, hvars, cvars>>

\* MeetupClient.comments lines 519-523 and Meetup.__fetch_and_parse_comments
\* lines 360-362: the page is yielded, its nodes are kept, the offset advances
CommentsYield ==
    /\ spc = "comments_yield"
    /\ comments' = comments \o NodesOf(comments_node.edges)
    /\ ncomments' = ncomments + max_items
    /\ IF CommentsDone(ncomments', comments_node)
       THEN /\ spc' = "tickets_fetch"
            /\ tickets_cursor' = NullCursor
       ELSE /\ spc' = "comments_fetch"
            /\ UNCHANGED tickets_cursor
    /\ UNCHANGED <<subconf, comments_node, tickets_node, rsvps>>
    /\ UNCHANGED <<fvars, gerrit_user, xvars, svars, rvars, hvars, cvars>>

\* MeetupClient.rsvps lines 532-537: the request of the page at the cursor
TicketsFetch ==
    /\ spc = "tickets_fetch"
    /\ tickets_cursor' = FormatCursor(tickets_cursor)
    /\ \E ok \in BOOLEAN :
          IF ok
          THEN /\ tickets_node' = ServerTickets(max_items, tickets_cursor')
               /\ spc' = "tickets_yield"
          ELSE /\ spc' = "raised"
               /\ UNCHANGED tickets_node
    /\ UNCHANGED <<subconf, ncomments, comments_node, comments, rsvps>>
    /\ UNCHANGED <<fvars, gerrit_user, xvars, svars, rvars, hvars, cvars>>

\* MeetupClient.rsvps lines 539-544 and Meetup.__fetch_and_parse_rsvps lines
\* 373-375: the page is yielded, its nodes are kept, the cursor advances
TicketsYield ==
    /\ spc = "tickets_yield"
    /\ rsvps' = rsvps \o NodesOf(tickets_node.edges)
    /\ IF tickets_node.pageInfo.hasNextPage
       THEN /\ tickets_cursor' = [t |-> "raw", v |-> tickets_node.pageInfo.endCursor]
            /\ spc' = "tickets_fetch"
       ELSE /\ spc' = "done"
            /\ UNCHANGED tickets_cursor
    /\ UNCHANGED <<subconf, ncomments, comments_node, tickets_node, comments>>
    /\ UNCHANGED <<fvars, gerrit_user, xvars, svars, rvars, hvars, cvars>>

\* the entries of a collection of n entries
MkEntries(n) == [i \in 1..n |-> [id |-> i]]

\* an event was yielded by the events walk; max_items is whatever the caller
\* gave, the Meetup classes do not constrain it
InitSub ==
    /\ InitIdleFetch
    /\ InitIdleSanitize /\ InitIdleClient /\ InitIdleRate /\ InitIdleHttp
    /\ max_items \in 0..MaxPage
    /\ \E n \in 0..MaxLen : event_comments = MkEntries(n)
    /\ \E n \in 0..MaxLen : event_tickets = MkEntries(n)
    /\ spc = "comments_fetch"
    /\ ncomments = 0 /\ tickets_cursor = NullCursor
    /\ comments_node = NoNode /\ tickets_node = NoNode
    /\ comments = <<>> /\ rsvps = <<>>

NextSub == CommentsFetch \/ CommentsYield \/ TicketsFetch \/ TicketsYield

SpecSub == InitSub /\ [][NextSub]_vars

\* the walk is resumed as long as it is not over
FairSpecSub == SpecSub /\ WF_vars(NextSub)

\* ------------------------------------------------------------------------
\* HttpClient.fetch: one request, retried on the retryable statuses
\* ------------------------------------------------------------------------
\* the statuses answered with a Retry-After header that are retried after it
DEFAULT_RETRY_AFTER_STATUS_CODES == {413, 429, 503}

\* the statuses that are retried without a delay
DEFAULT_STATUS_FORCE_LIST == {408, 423, 504}

\* StatusForceList that ignores the statuses the client was built with
StatusForceListDefault == DEFAULT_STATUS_FORCE_LIST

\* the statuses that end in a RetryError: the defaults and the extra ones the
\* client was built with (test_fetch_retry: extra_status_forcelist=[301])
StatusForceList == DEFAULT_STATUS_FORCE_LIST \cup extra_status_forcelist

\* the statuses that are errors and are not retried (test_fetch_http_error: 403)
FatalStatuses == {403, 404}

\* a 2xx answer
IsSuccess(code) == code \in 200..299

\* the statuses a url answers with: a redirect is answered only to a client
\* whose force list holds it
Statuses ==
    {200, 201} \cup FatalStatuses \cup DEFAULT_RETRY_AFTER_STATUS_CODES
       \cup DEFAULT_STATUS_FORCE_LIST \cup extra_status_forcelist

\* HasRetriesLeft with a budget of one retry less
HasRetriesLeftButOne(retried) == retried < max_retries - 1

\* the retry budget: max_retries retries follow the first send
HasRetriesLeft(retried) == retried < max_retries

\* the wait before the i-th retry of a status answered with Retry-After: the
\* advertised delay, or the delay times the index of the attempt
RetryAfterWaits(i) == {retry_after, retry_after * i}

\* HttpClient.fetch is called
HttpFetch ==
    /\ hpc \in {"idle", "returned", "raised"}
    /\ http_status' \in Statuses
    /\ retry_after' \in 0..MaxDelay
    /\ hpc' = "sending"
    /\ http_attempts' = 0 /\ http_slept' = <<>> /\ http_error' = "none"
    /\ http_response' = NoneVal
    /\ UNCHANGED <<max_retries, extra_status_forcelist>>
    /\ UNCHANGED <<fvars, gerrit_user, xvars, svars, rvars, subvars, cvars>>

\* the request is sent and the answer is classified
HttpSend ==
    /\ hpc = "sending"
    /\ http_attempts' = http_attempts + 1
    /\ IF IsSuccess(http_status)
       THEN /\ hpc' = "returned" /\ http_response' = IntVal(http_status)
            /\ UNCHANGED <<http_slept, http_error>>
       ELSE IF http_status \in DEFAULT_RETRY_AFTER_STATUS_CODES
       THEN IF HasRetriesLeft(http_attempts)
            THEN /\ \E w \in RetryAfterWaits(http_attempts + 1) :
                       http_slept' = Append(http_slept, w)
                 /\ UNCHANGED <<hpc, http_error, http_response>>
            ELSE /\ hpc' = "raised" /\ http_error' = "HTTPError"
                 /\ UNCHANGED <<http_slept, http_response>>
       ELSE IF http_status \in StatusForceList
       THEN IF HasRetriesLeft(http_attempts)
            THEN UNCHANGED <<hpc, http_slept, http_error, http_response>>
            ELSE /\ hpc' = "raised" /\ http_error' = "RetryError"
                 /\ UNCHANGED <<http_slept, http_response>>
       ELSE /\ hpc' = "raised" /\ http_error' = "HTTPError"
            /\ UNCHANGED <<http_slept, http_response>>
    /\ UNCHANGED <<max_retries, http_status, retry_after, extra_status_forcelist>>
    /\ UNCHANGED <<fvars, gerrit_user, xvars, svars, rvars, subvars, cvars>>

InitHttp ==
    /\ InitIdleFetch /\ max_items = 1
    /\ InitIdleSanitize /\ InitIdleClient /\ InitIdleRate /\ InitIdleSub
    /\ max_retries \in 0..MaxBudget
    /\ extra_status_forcelist \in {{}, {301}}
    /\ hpc = "idle" /\ http_status = 200 /\ retry_after = 0
    /\ http_attempts = 0 /\ http_slept = <<>> /\ http_error = "none"
    /\ http_response = NoneVal

NextHttp == HttpFetch \/ HttpSend

SpecHttp == InitHttp /\ [][NextHttp]_vars

\* ------------------------------------------------------------------------
\* Properties
\* ------------------------------------------------------------------------
TimesOf(s) == [i \in 1..Len(s) |-> s[i].lastUpdated]

SortedDesc(s) ==
    \A i, j \in 1..Len(s) : i < j => s[i].lastUpdated >= s[j].lastUpdated

\* every partition of the Gerrit server lists its reviews newest first
SourceSorted == \A f \in DOMAIN partitions : SortedDesc(partitions[f])

WasYielded(item) == \E i \in 1..Len(yielded) : yielded[i] = item

IsPrefix(s, t) == Len(s) <= Len(t) /\ s = SubSeq(t, 1, Len(s))

Dual == backend = "gerrit" /\ version = <<2, 8>>

\* C1: no item yielded by a fetch has its update time at or before the
\* watermark: every yielded review has lastUpdated > from_ut (both Gerrit
\* fetchers) and every yielded event has dateTime > from_date (Meetup).
C1_NoYieldAtOrBeforeWatermark ==
    /\ backend = "gerrit" =>
          \A i \in 1..Len(yielded) : yielded[i].lastUpdated > from_ut
    /\ backend = "meetup" =>
          \A i \in 1..Len(yielded) : ParseDateTime(yielded[i].dateTime) > from_date

\* a dual-queue fetch that yielded reviews and then stopped on a watermark hit
C1_Witness ==
    /\ Dual /\ pc = "done" /\ yielded # <<>>
    /\ \/ review_open # <<>> /\ review_open[1].lastUpdated <= from_ut
       \/ review_closed # <<>> /\ review_closed[1].lastUpdated <= from_ut

\* C2: a fetch that completes without error has yielded every source item
\* whose update time is after the watermark: the Gerrit fetchers when every
\* partition lists its reviews in non-increasing lastUpdated order, the
\* Meetup events walk for any page contents.
C2_YieldsEveryItemAfterWatermark ==
    pc = "done" =>
       /\ (backend = "gerrit" /\ SourceSorted) =>
             \A f \in DOMAIN partitions : \A i \in 1..Len(partitions[f]) :
                partitions[f][i].lastUpdated > from_ut => WasYielded(partitions[f][i])
       /\ backend = "meetup" =>
             \A ty \in DOMAIN group_events : \A i \in 1..Len(group_events[ty]) :
                ParseDateTime(group_events[ty][i].dateTime) > from_date
                   => WasYielded(group_events[ty][i])

\* a completed dual-queue fetch over sorted partitions that asked for a further
\* page, yielded reviews and left a review at or before the watermark behind
C2_Witness ==
    /\ Dual /\ pc = "done" /\ SourceSorted
    /\ Len(requests) >= 3 /\ Len(yielded) >= 2
    /\ \E f \in DOMAIN partitions : \E i \in 1..Len(partitions[f]) :
          partitions[f][i].lastUpdated <= from_ut

\* C3, as stated: in the dual-queue fetcher, for any contents of the two
\* partitions, the yielded reviews are non-increasing in lastUpdated.
C3_Original_NonIncreasingForAnyContents ==
    Dual => SortedDesc(yielded)

\* C3, amended: in the dual-queue fetcher, when each partition lists its
\* reviews in non-increasing lastUpdated order, the yielded reviews are
\* non-increasing in lastUpdated from the first yield until the stream stops.
C3_NonIncreasingWhenPartitionsSorted ==
    (Dual /\ SourceSorted) => SortedDesc(yielded)

\* a dual-queue fetch over sorted partitions that yielded reviews of both
\* partitions and refilled a queue
C3_Witness ==
    /\ Dual /\ SourceSorted /\ Len(requests) >= 3 /\ Len(yielded) >= 3
    /\ \E i, j \in 1..Len(yielded) :
          yielded[i].status = "open" /\ yielded[j].status = "closed"

Scenario28 ==
    /\ Dual /\ from_ut = 30
    /\ TimesOf(partitions[FILTER_OPEN]) = <<50, 40>>
    /\ TimesOf(partitions[FILTER_CLOSED]) = <<45, 10>>

\* C4: with open reviews timestamped [50, 40], closed reviews [45, 10] and
\* watermark 30, the dual-queue fetch yields exactly the reviews timestamped
\* 50, 45, 40 in that order and then stops; the review timestamped 10 is
\* never yielded.
C4_DualQueueScenario ==
    Scenario28 =>
       LET expected == <<partitions[FILTER_OPEN][1], partitions[FILTER_CLOSED][1],
                         partitions[FILTER_OPEN][2]>>
       IN /\ IsPrefix(yielded, expected)
          /\ pc = "done" => yielded = expected
          /\ (pc = "loop28" /\ yielded = expected)
                => (reviews_open = <<>> /\ TimesOf(reviews_closed) = <<10>>)

\* the scenario's fetch has stopped after its three yields
C4_Witness ==
    Scenario28 /\ pc = "done" /\ TimesOf(yielded) = <<50, 45, 40>>

ExpectedKey(c) == [user |-> "xxxxx", op |-> c.op, limit |-> c.limit,
                   filter |-> c.filter, page |-> c.page]

Failures(s) == Cardinality({i \in 1..Len(s) : s[i] = "CalledProcessError"})

RECURSIVE SumSeq(_)
SumSeq(s) == IF s = <<>> THEN 0 ELSE Head(s) + SumSeq(Tail(s))

Recording == ~from_archive /\ xpc # "idle"

\* C5: one logical Gerrit command is executed at most MAX_RETRIES times: the
\* attempt counter starts at zero, execution stops at the first success, and
\* after MAX_RETRIES failed attempts a RuntimeError is raised and no result
\* is returned.
C5_AtMostMaxRetriesAttempts ==
    Recording =>
       /\ Len(attempts) <= MAX_RETRIES
       /\ retries = Failures(attempts)
       /\ attempts = <<>> => retries = 0
       /\ \A i \in 1..(Len(attempts) - 1) : attempts[i] = "CalledProcessError"
       /\ xpc = "returned" =>
             /\ attempts # <<>> /\ attempts[Len(attempts)] = "ok"
             /\ response.kind = "bytes"
       /\ xpc = "raised" =>
             /\ Len(attempts) = MAX_RETRIES /\ Failures(attempts) = MAX_RETRIES
             /\ response = RuntimeError(cmd)
       /\ (Failures(attempts) = MAX_RETRIES /\ Finished) => xpc = "raised"

\* a command whose every attempt failed has raised
C5_Witness ==
    Recording /\ xpc = "raised" /\ Len(attempts) = MAX_RETRIES

\* C6: a command that fails on attempts 1..k-1 and succeeds on attempt k has
\* waited RETRY_WAIT*1 + ... + RETRY_WAIT*(k-1) in total before it returns:
\* the wait after the i-th failed attempt is RETRY_WAIT*i.
C6_WaitAfterFailureIsDelayTimesAttempt ==
    (Recording /\ xpc = "returned") =>
       /\ \A i \in 1..Len(slept) : slept[i] = RETRY_WAIT * i
       /\ SumSeq(slept) = RETRY_WAIT * (((Len(attempts) - 1) * Len(attempts)) \div 2)

\* C7: with an archive configured and outside replay mode, every logical
\* command stores exactly one archive entry under its sanitized command, after
\* all attempts are over and before the outcome is returned or raised: the
\* command output on success, the RuntimeError on definitive failure.
C7_OneArchiveEntryPerCommand ==
    (Recording /\ has_archive) =>
       /\ xpc \in {"attempt", "after_loop"} => stores = <<>>
       /\ xpc \in {"deliver", "returned", "raised"} =>
             /\ stores = <<[key |-> ExpectedKey(cmd), value |-> result]>>
             /\ ExpectedKey(cmd) \in DOMAIN archive
             /\ archive[ExpectedKey(cmd)] = result
             /\ result = IF Failures(attempts) = MAX_RETRIES
                         THEN RuntimeError(cmd) ELSE result
             /\ result.kind \in {"bytes", "RuntimeError"}
             /\ result.kind = "bytes" <=> attempts[Len(attempts)] = "ok"
       /\ xpc = "deliver" => response = NoneResult
       /\ xpc \in {"returned", "raised"} => response = result

\* a failed command's RuntimeError is in the archive and not yet raised
C7_Witness ==
    /\ Recording /\ has_archive /\ xpc = "deliver"
    /\ stores = <<[key |-> ExpectedKey(cmd), value |-> RuntimeError(cmd)]>>

\* C8: in replay mode a command never executes a subprocess, never sleeps and
\* never writes to the archive; it returns the value stored under the
\* sanitized command, and raises that value when it is an error.
C8_ReplayDoesNoIO ==
    (from_archive /\ xpc # "idle") =>
       /\ Finished
       /\ attempts = <<>> /\ slept = <<>> /\ stores = <<>>
       /\ retrieves = <<ExpectedKey(cmd)>>
       /\ ExpectedKey(cmd) \in DOMAIN archive =>
             /\ response = archive[ExpectedKey(cmd)]
             /\ (xpc = "raised") <=> (response.kind = "RuntimeError")

\* a stored error is raised to a client of another user than the recording one
C8_Witness ==
    /\ from_archive /\ xpc = "raised" /\ response.kind = "RuntimeError"
    /\ response.msg.user # gerrit_user

\* C9: a recording run that ends command Q with outcome R, followed by a replay
\* of Q, gives the caller exactly R: the same bytes are returned when R is a
\* result, the same error is raised, not returned, when R is an error.
C9_ArchiveRoundTrip ==
    (from_archive /\ xpc # "idle" /\ recorded.cmd = cmd) =>
       /\ xpc = recorded.mode
       /\ response = recorded.value

\* the replay of a command whose recording run ended with a RuntimeError
C9_Witness ==
    /\ from_archive /\ xpc = "raised" /\ recorded.cmd = cmd
    /\ recorded.mode = "raised" /\ response = RuntimeError(cmd)

\* C10: in replay mode a command whose sanitized key was never recorded ends
\* with a fatal lookup failure: nothing is returned for it, no subprocess is
\* executed as a fallback, and it is not retried.
C10_MissingKeyIsFatal ==
    (from_archive /\ xpc # "idle" /\ ExpectedKey(cmd) \notin DOMAIN archive) =>
       /\ xpc = "raised"
       /\ response = ArchiveError(ExpectedKey(cmd))
       /\ attempts = <<>> /\ slept = <<>>
       /\ Len(retrieves) = 1

\* a replayed command that the archive does not hold, in an archive that holds
\* another command
C10_Witness ==
    /\ from_archive /\ xpc = "raised" /\ response.kind = "ArchiveError"
    /\ DOMAIN archive # {}

\* C11: two request descriptors that differ only in their credentials have the
\* same archive key: two Gerrit commands that differ only in the SSH user give
\* the same sanitized command, two Meetup requests that differ only in the
\* Authorization header give the same (url, headers, payload).
C11_SameKeyWhateverTheCredentials ==
    descriptors # <<>> => sanitized[1] = sanitized[2]

\* two Gerrit commands of different users, one of them with an at sign in its
\* name, issued with a key file whose path has an at sign
C11_Witness ==
    /\ descriptors # <<>>
    /\ descriptors[1].client = "gerrit"
    /\ descriptors[1].credential # descriptors[2].credential
    /\ \E i \in 1..Len(descriptors[1].credential) : descriptors[1].credential[i] = AT
    /\ descriptors[2].credential # <<>>
    /\ \E i \in 1..Len(descriptors[1].request) : descriptors[1].request[i] = "k"
    /\ \E i \in 1..Len(sanitized[1]) : sanitized[1][i] = "xxxxx"

\* the last handler call was the rate-limit wait
AfterWait == rpc \in {"returned", "raised"}

\* C12: after update_rate_limit(response) the rate state is that of the
\* response alone: remaining quota and reset value are those of its quota
\* headers, and each is None when its header is absent, whatever it was before.
C12_RateStateIsTheLastResponse ==
    rpc = "updated" =>
       /\ rate_limit = IF last_headers.remaining = NoneVal THEN NoneVal
                       ELSE IntVal(last_headers.remaining.v)
       /\ rate_limit_reset_ts = IF last_headers.reset = NoneVal THEN NoneVal
                                ELSE IntVal(last_headers.reset.v)

\* a response without quota headers was observed by a client whose quota and
\* reset value were known
C12_Witness ==
    /\ rpc = "updated" /\ last_headers = NoHeaders
    /\ rate_before.rate_limit # NoneVal /\ rate_before.rate_limit_reset_ts # NoneVal

\* the wait of a throttling Meetup client whose quota was known and below the
\* floor and whose reset value was known
ThrottledWait ==
    /\ AfterWait /\ subclass = "MeetupClient" /\ sleep_for_rate
    /\ rate_before.rate_limit # NoneVal
    /\ rate_before.rate_limit.v < min_rate_to_sleep
    /\ rate_before.rate_limit_reset_ts # NoneVal

\* the wait of a client whose quota was known and above the floor
UnthrottledWait ==
    /\ AfterWait /\ rate_before.rate_limit # NoneVal
    /\ rate_before.rate_limit.v > min_rate_to_sleep

\* C13, as stated: with throttling enabled, quota below the floor and a known
\* reset instant T, the wait blocks for max(0, T - now) seconds, T being the
\* reset value taken as an instant or counted from the response that carried
\* it; with quota above the floor it does not block.
C13_Original_BlocksUntilResetInstant ==
    /\ ThrottledWait =>
          LET R == rate_before.rate_limit_reset_ts.v
          IN \/ rate_slept = <<Max(0, R - waited_at)>>
             \/ rate_slept = <<Max(0, (observed_at + R) - waited_at)>>
    /\ UnthrottledWait => rate_slept = <<>>

\* C13, amended: with throttling enabled, quota below the floor and a known
\* reset value R, the wait of the Meetup client blocks for max(0, R) seconds,
\* whatever the clock is, never a negative duration; with quota above the
\* floor it does not block.
C13_BlocksForResetValue ==
    /\ ThrottledWait =>
          /\ rate_slept = <<Max(0, rate_before.rate_limit_reset_ts.v)>>
          /\ rate_slept[1] >= 0
          /\ rpc = "returned"
    /\ UnthrottledWait => rate_slept = <<>>

\* a throttled wait made one second after the response that carried a reset
\* value of two
C13_Witness ==
    /\ ThrottledWait /\ rate_before.rate_limit_reset_ts.v = 2
    /\ observed_at = 0 /\ waited_at = 1 /\ rate_slept # <<>>

\* C14: the rate-limit wait never sleeps when throttling is disabled, whatever
\* the remaining quota, and never sleeps when the remaining quota is unknown,
\* whatever the throttling setting.
C14_NoSleepWhenDisabledOrUnknown ==
    (AfterWait /\ (~sleep_for_rate \/ rate_before.rate_limit = NoneVal))
       => rate_slept = <<>>

\* a throttling client whose quota is unknown and whose reset value is known
\* has made its wait
C14_Witness ==
    /\ AfterWait /\ sleep_for_rate /\ subclass = "MeetupClient"
    /\ rate_before.rate_limit = NoneVal
    /\ rate_before.rate_limit_reset_ts # NoneVal /\ rate_before.rate_limit_reset_ts.v > 0

\* C15: when the remaining quota is known and at or below the floor and the
\* client's class does not implement calculate_time_to_reset, the wait raises
\* NotImplementedError: it does not sleep and the wait is over.
C15_NotImplementedIsRaised ==
    (/\ AfterWait /\ subclass = "MockedClient"
     /\ rate_before.rate_limit # NoneVal
     /\ rate_before.rate_limit.v <= min_rate_to_sleep)
       => /\ rpc = "raised" /\ rate_error = "NotImplementedError"
          /\ rate_slept = <<>>
          /\ RateState = rate_before

\* the wait of a client of the class without calculate_time_to_reset, with
\* throttling enabled, a quota at the floor and a known reset value, has raised
C15_Witness ==
    /\ rpc = "raised" /\ subclass = "MockedClient" /\ sleep_for_rate
    /\ rate_before.rate_limit = IntVal(min_rate_to_sleep)
    /\ rate_before.rate_limit_reset_ts # NoneVal

Gerrit29 == backend = "gerrit" /\ version = <<2, 9>>

SubOver == spc \in {"done", "raised"}

\* C17: the sub-resource pagination of one event always terminates, for
\* comments and for rsvps, and the edges yielded over all its pages are
\* exactly the collection's edges: as many comments as the reported count.
C17_SubResourcePaginationTerminates ==
    /\ <>SubOver
    /\ [](spc = "done" =>
             /\ comments = event_comments /\ Len(comments) = comments_node.count
             /\ rsvps = event_tickets)

\* the same, for a page size of at least one
PositivePageSizeTerminates ==
    (max_items >= 1) =>
       /\ <>SubOver
       /\ [](spc = "done" =>
                /\ comments = event_comments /\ Len(comments) = comments_node.count
                /\ rsvps = event_tickets)

AllEvents == group_events[VPAST_EVENTS] \o group_events[VFUTURE_EVENTS]

\* one page of past events, two pages of upcoming events, and a watermark
\* older than every event
CursorScenario ==
    /\ backend = "meetup" /\ group_exists
    /\ Len(group_events[VPAST_EVENTS]) <= max_items
    /\ Len(group_events[VFUTURE_EVENTS]) > max_items
    /\ Len(group_events[VFUTURE_EVENTS]) <= 2 * max_items
    /\ \A i \in 1..Len(AllEvents) : ParseDateTime(AllEvents[i].dateTime) > from_date

\* C18: with one page of past events (hasNextPage false), two pages of upcoming
\* events and a watermark older than every event, the fetch yields every past
\* event and then every upcoming event, each exactly once, in page order and
\* in edge order within the page.
C18_CursorScenario ==
    CursorScenario =>
       /\ IsPrefix(yielded, AllEvents)
       /\ pc = "done" =>
             /\ yielded = AllEvents
             /\ \A i, j \in 1..Len(yielded) : i # j => yielded[i].id # yielded[j].id

\* the scenario's walk is over: a past event and two upcoming events, one per
\* page, were yielded after three list requests
C18_Witness ==
    /\ CursorScenario /\ pc = "done"
    /\ Len(group_events[VPAST_EVENTS]) = 1 /\ Len(group_events[VFUTURE_EVENTS]) = 2
    /\ Len(yielded) = 3
    /\ Cardinality({i \in 1..Len(requests) : requests[i].query = "events"}) = 3

\* the reviews of a list up to the first one at or before the watermark
RECURSIVE TakeUntilStop(_)
TakeUntilStop(s) ==
    IF s = <<>> \/ Head(s).lastUpdated <= from_ut THEN <<>>
    ELSE <<Head(s)>> \o TakeUntilStop(Tail(s))

\* the newer front of two lists, again and again, up to the first review at or
\* before the watermark; on a tie the front of the first list
RECURSIVE MergeUntilStop(_, _)
MergeUntilStop(ro, rc) ==
    IF ro = <<>> /\ rc = <<>> THEN <<>>
    ELSE LET open == rc = <<>> \/ (ro # <<>> /\ ro[1].lastUpdated >= rc[1].lastUpdated)
             rv == IF open THEN Head(ro) ELSE Head(rc)
         IN IF rv.lastUpdated <= from_ut THEN <<>>
            ELSE <<rv>> \o (IF open THEN MergeUntilStop(Tail(ro), rc)
                            ELSE MergeUntilStop(ro, Tail(rc)))

\* what the fetch yields from the source when no request fails
FaultFreeItems ==
    IF backend = "meetup"
    THEN IF group_exists
         THEN SelectSeq(AllEvents, LAMBDA e : ParseDateTime(e.dateTime) > from_date)
         ELSE <<>>
    ELSE IF version = <<2, 8>>
    THEN MergeUntilStop(partitions[FILTER_OPEN], partitions[FILTER_CLOSED])
    ELSE IF version = <<2, 9>> THEN <<>>
    ELSE TakeUntilStop(partitions[FILTER_NONE])

\* C19: once a fatal error is raised during a fetch (version detection,
\* unsupported pagination, transport exhaustion, missing group) the item
\* sequence is over: no item is yielded and no request is issued afterwards,
\* and the items yielded before the error are the first ones of the sequence
\* that the fetch yields when nothing fails.
C19_NoItemAfterFatalError ==
    /\ [](error # "none" <=> pc = "raised")
    /\ [](error # "none" => IsPrefix(yielded, FaultFreeItems))
    /\ [](pc = "done" => yielded = FaultFreeItems)
    /\ [][error # "none" => (yielded' = yielded /\ requests' = requests)]_vars

\* a page request failed for good after a review was yielded and before the
\* last one was
C19_Witness ==
    /\ backend = "gerrit" /\ error = "RuntimeError"
    /\ yielded # <<>> /\ Len(yielded) < Len(FaultFreeItems)

\* C20: a request that is always answered with a retry-after status (413, 429
\* or 503) and Retry-After = D is never returned: it is retried until the
\* max_retries budget is used up and then raises HTTPError, and by then the
\* client has waited at least D * max_retries in total.
C20_RetryAfterUsesWholeBudget ==
    (http_status \in DEFAULT_RETRY_AFTER_STATUS_CODES /\ hpc # "idle") =>
       /\ hpc # "returned"
       /\ http_attempts <= max_retries + 1
       /\ hpc = "raised" =>
             /\ http_error = "HTTPError"
             /\ http_attempts = max_retries + 1
             /\ Len(http_slept) = max_retries
             /\ SumSeq(http_slept) >= retry_after * max_retries

\* a request answered 429 with Retry-After 1 has raised after two retries
C20_Witness ==
    /\ hpc = "raised" /\ http_status = 429 /\ retry_after = 1 /\ max_retries = 2
    /\ http_slept # <<>>

\* C21: a request that always answers a status of the force list (408, 423, 504
\* or one the client added) is never returned and ends with a RetryError when
\* the retry budget is used up; a request that answers an error status outside
\* the retryable sets (403) is sent once and ends with an HTTPError; a 2xx
\* answer is sent once and returned as the result.
C21_OutcomeClassification ==
    hpc # "idle" =>
       /\ http_status \in DEFAULT_STATUS_FORCE_LIST \cup extra_status_forcelist =>
             /\ hpc # "returned"
             /\ http_attempts <= max_retries + 1
             /\ hpc = "raised" =>
                   http_error = "RetryError" /\ http_attempts = max_retries + 1
       /\ http_status \in FatalStatuses =>
             /\ hpc # "returned"
             /\ http_attempts <= 1
             /\ hpc = "raised" => http_error = "HTTPError" /\ http_attempts = 1
       /\ IsSuccess(http_status) =>
             /\ hpc # "raised"
             /\ http_attempts <= 1
             /\ hpc = "returned" =>
                   http_response = IntVal(http_status) /\ http_attempts = 1

\* a request answered 301 by a client built with 301 in its force list and a
\* budget of one retry has raised
C21_Witness ==
    /\ hpc = "raised" /\ http_status = 301 /\ 301 \in extra_status_forcelist
    /\ max_retries = 1 /\ http_attempts = 2

\* the fetch generator is exhausted or has raised
FetchEnded == pc \in {"done", "raised"}

\* number of pages of a partition of n items cut in pages of `size`; an empty
\* partition is one empty page, and a partition of full pages only is followed,
\* in Gerrit, by one empty page
PagesOf(n, size) == (n \div size) + 1

\* the list-page requests issued so far (Meetup: the event-detail requests left out)
PageRequests ==
    SelectSeq(requests, LAMBDA r : backend = "gerrit" \/ r.query = "events")

\* the number of items the server holds
SourceSize ==
    IF backend = "gerrit"
    THEN IF version = <<2, 8>>
         THEN Len(partitions[FILTER_OPEN]) + Len(partitions[FILTER_CLOSED])
         ELSE Len(partitions[FILTER_NONE])
    ELSE Len(group_events[VPAST_EVENTS]) + Len(group_events[VFUTURE_EVENTS])

\* a bound on the page requests of a fetch over the source
MaxPageRequests ==
    IF backend = "gerrit"
    THEN IF version = <<2, 8>>
         THEN PagesOf(Len(partitions[FILTER_OPEN]), max_reviews)
              + PagesOf(Len(partitions[FILTER_CLOSED]), max_reviews)
         ELSE PagesOf(Len(partitions[FILTER_NONE]), max_reviews)
    ELSE PagesOf(Len(group_events[VPAST_EVENTS]), max_items)
         + PagesOf(Len(group_events[VFUTURE_EVENTS]), max_items)

\* C22: over a finite source and for any watermark the fetch issues finitely
\* many page requests (no more than the pages the source is cut in) and yields
\* no more items than the source holds, it ends, and once it has ended it
\* requests and yields nothing more.
C22_FetchIsFinite ==
    /\ [](Len(PageRequests) <= MaxPageRequests /\ Len(yielded) <= SourceSize)
    /\ <>FetchEnded
    /\ [][FetchEnded => (FetchEnded' /\ yielded' = yielded /\ requests' = requests)]_vars

\* a fetch that ended normally after a second page of some partition
C22_Witness ==
    /\ pc = "done" /\ Len(yielded) >= 2
    /\ \E i \in 1..Len(requests) :
          IF backend = "gerrit" THEN requests[i].page.opt # "none"
          ELSE requests[i].query = "events" /\ requests[i].after # NullCursor

\* a step of the dual-queue loop that pops a review
Pops28 == Dual /\ pc = "loop28" /\ (reviews_open # <<>> \/ reviews_closed # <<>>)

\* C23: in the dual-queue fetcher, the step that pops a review updated at or
\* before the watermark ends the stream: the review is not yielded, no page is
\* requested, the other queue is left as it is, and after the end nothing is
\* yielded or requested any more.
C23_WatermarkHitEndsTheStream ==
    [][/\ Pops28 =>
            LET from_open == reviews_open' # reviews_open
                rv == IF from_open THEN Head(reviews_open) ELSE Head(reviews_closed)
            IN rv.lastUpdated <= from_ut =>
                  /\ pc' = "done"
                  /\ yielded' = yielded /\ requests' = requests
                  /\ IF from_open THEN reviews_closed' = reviews_closed
                     ELSE reviews_open' = reviews_open
       /\ (Dual /\ pc = "done") =>
            /\ pc' = "done" /\ yielded' = yielded /\ requests' = requests
            /\ reviews_open' = reviews_open /\ reviews_closed' = reviews_closed]_vars

\* the stream stopped on an open review at the watermark after a yield, with
\* closed reviews still pending
C23_Witness ==
    /\ Dual /\ pc = "done" /\ yielded # <<>>
    /\ review_open # <<>> /\ review_open[1].lastUpdated = from_ut
    /\ reviews_closed # <<>>

\* the requests that a step adds to the log
NewRequests == SubSeq(requests', Len(requests) + 1, Len(requests'))

\* a step asks for a page of the partition of filter f
RequestsPageOf(f) == \E i \in 1..Len(NewRequests) : NewRequests[i].filter = f

\* the generator is resumed after a yield
AfterYield == pc \in {"refill28", "refill1"} /\ yielded # <<>>

\* C24: in both Gerrit fetchers, once the first pages are fetched, a page of a
\* partition is requested exactly in the step that follows a yield and finds
\* the partition's queue empty and its last page of at least max_reviews
\* reviews (the closed partition's request comes after the open partition's
\* and is not made when that one failed, which ends the fetch); a partition
\* whose last page held fewer than max_reviews reviews is not queried again.
C24_RefillExactlyOnEmptyQueueAndFullPage ==
    [][(backend = "gerrit" /\ pc \notin {"version", "start"}) =>
          IF version = <<2, 8>>
          THEN LET need_open == AfterYield /\ reviews_open = <<>>
                                   /\ last_nreviews_open >= max_reviews
                   need_closed == AfterYield /\ reviews_closed = <<>>
                                     /\ last_nreviews_closed >= max_reviews
               IN /\ RequestsPageOf(FILTER_OPEN) <=> need_open
                  /\ RequestsPageOf(FILTER_CLOSED) => need_closed
                  /\ need_closed => (RequestsPageOf(FILTER_CLOSED) \/ error' = "RuntimeError")
                  /\ Len(NewRequests) <= 2
                  /\ last_nreviews_open < max_reviews => ~RequestsPageOf(FILTER_OPEN)
                  /\ last_nreviews_closed < max_reviews => ~RequestsPageOf(FILTER_CLOSED)
          ELSE LET need == AfterYield /\ reviews = <<>> /\ last_nreviews >= max_reviews
               IN /\ RequestsPageOf(FILTER_NONE) <=> need
                  /\ Len(NewRequests) <= 1
                  /\ last_nreviews < max_reviews => ~RequestsPageOf(FILTER_NONE)]_vars

\* after a yield of the dual-queue fetcher the third request has refilled the
\* closed queue, while the open queue is empty after a page that was not full
C24_Witness ==
    /\ Dual /\ pc = "refill28"
    /\ Len(requests) = 3 /\ requests[3].filter = FILTER_CLOSED
    /\ reviews_open = <<>> /\ last_nreviews_open < max_reviews
    /\ last_nreviews_open > 0

\* the versions that paginate by offset: 2.10 and later, 3.x
OffsetVersion == (version[1] = 2 /\ version[2] >= 10) \/ version[1] = 3

\* the status of the reviews of a partition
StatusOf(f) ==
    IF f = FILTER_OPEN THEN "open" ELSE IF f = FILTER_CLOSED THEN "closed" ELSE "any"

\* the review most recently yielded among those of status st
LastYielded(st) ==
    LET idx == {i \in 1..Len(yielded) : yielded[i].status = st}
    IN yielded[CHOOSE i \in idx : \A j \in idx : j <= i]

\* C25: on the offset versions the first page is requested with --start=0 and
\* every later page with --start set to the number of reviews popped so far;
\* on the sort-key versions the first page of a partition is requested without
\* a token and every later page with resume_sortkey set to the sortKey of the
\* review most recently popped from that partition, and a step that requests
\* no page of a partition leaves that partition's token as it is.
C25_PageTokensFollowTheVersion ==
    [][backend = "gerrit" =>
          /\ \A i \in 1..Len(NewRequests) :
                LET r == NewRequests[i]
                IN IF pc = "start"
                   THEN r.page = IF OffsetVersion THEN [opt |-> "--start", v |-> 0]
                                 ELSE [opt |-> "none", v |-> 0]
                   ELSE IF OffsetVersion
                   THEN r.page = [opt |-> "--start", v |-> Len(yielded)]
                   ELSE r.page = [opt |-> "resume_sortkey",
                                  v |-> LastYielded(StatusOf(r.filter)).sortKey]
          /\ (pc # "start" /\ ~RequestsPageOf(FILTER_OPEN)) =>
                last_item_open' = last_item_open
          /\ (pc # "start" /\ ~RequestsPageOf(FILTER_CLOSED)) =>
                last_item_closed' = last_item_closed]_vars

\* the dual-queue fetcher has just refilled the closed queue from the sortKey of
\* the first closed review, after it had popped an open review as well
C25_Witness ==
    /\ Dual /\ pc = "loop28" /\ Len(requests) >= 3
    /\ requests[Len(requests)].filter = FILTER_CLOSED
    /\ requests[Len(requests)].page = [opt |-> "resume_sortkey", v |-> 1]
    /\ Len(yielded) >= 2

\* the step pops the front of the open queue and yields it if it is after the
\* watermark
PopsAndYieldsOpen ==
    /\ reviews_open' = Tail(reviews_open) /\ reviews_closed' = reviews_closed
    /\ Head(reviews_open).lastUpdated > from_ut =>
          yielded' = Append(yielded, Head(reviews_open))

\* the step pops the front of the closed queue and yields it if it is after the
\* watermark
PopsAndYieldsClosed ==
    /\ reviews_closed' = Tail(reviews_closed) /\ reviews_open' = reviews_open
    /\ Head(reviews_closed).lastUpdated > from_ut =>
          yielded' = Append(yielded, Head(reviews_closed))

\* C26: in the dual-queue fetcher, when the fronts of the two queues have the
\* same lastUpdated the open front is popped (and yielded) and the closed
\* front stays; when one queue only is non-empty its front is popped.
C26_TieGoesToOpen ==
    [][Pops28 =>
          /\ (reviews_open # <<>> /\ reviews_closed # <<>>
                /\ Head(reviews_open).lastUpdated = Head(reviews_closed).lastUpdated)
                => PopsAndYieldsOpen
          /\ (reviews_open # <<>> /\ reviews_closed = <<>>) => PopsAndYieldsOpen
          /\ (reviews_open = <<>> /\ reviews_closed # <<>>) => PopsAndYieldsClosed]_vars

\* the first pop took and yielded the open front while the closed front has
\* the same lastUpdated
C26_Witness ==
    /\ Dual /\ pc = "refill28"
    /\ review_open # <<>> /\ review_closed = <<>>
    /\ yielded = review_open
    /\ reviews_closed # <<>>
    /\ Head(reviews_closed).lastUpdated = review_open[1].lastUpdated

\* how many reviews of the partition of filter f the requests so far have covered
Fetched(f) ==
    LET ends == {Min(Len(partitions[f]), requests[i].page.v + requests[i].limit) :
                    i \in {j \in 1..Len(requests) : requests[j].filter = f}}
    IN IF ends = {} THEN 0 ELSE CHOOSE e \in ends : \A d \in ends : d <= e

\* the reviews of the partition of filter f in the pages not requested yet
Unrequested(f) == SubSeq(partitions[f], Fetched(f) + 1, Len(partitions[f]))

\* the dual-queue stream has stopped on a review at or before the watermark
StoppedOnWatermark ==
    /\ Dual /\ pc = "done"
    /\ \/ review_open # <<>> /\ review_open[1].lastUpdated <= from_ut
       \/ review_closed # <<>> /\ review_closed[1].lastUpdated <= from_ut

\* the reviews the stream has left behind: pending in a queue or not requested
LeftBehind ==
    reviews_open \o reviews_closed \o Unrequested(FILTER_OPEN) \o Unrequested(FILTER_CLOSED)

\* C27: when each partition delivers its reviews in non-increasing lastUpdated
\* order and the dual-queue stream stops on a watermark hit, no review updated
\* after the watermark is left in a pending queue or in a page not requested.
C27_NothingNewerLeftBehind ==
    (StoppedOnWatermark /\ SourceSorted) =>
       \A i \in 1..Len(LeftBehind) : LeftBehind[i].lastUpdated <= from_ut

\* the stream over sorted partitions stopped after a yield on a review of one
\* queue and left a review pending in the other queue
C27_Witness ==
    /\ StoppedOnWatermark /\ SourceSorted /\ yielded # <<>>
    /\ \/ review_open # <<>> /\ review_open[1].lastUpdated <= from_ut
          /\ reviews_closed # <<>>
       \/ review_closed # <<>> /\ review_closed[1].lastUpdated <= from_ut
          /\ reviews_open # <<>>

\* the page the server answers a list request with
AnswerOf(r) == ServerEventsPage(r.event_type, r.first, r.after)

\* C28: the list requests of the Meetup events walk start with pastEvents at
\* the null cursor; after a page that reports hasNextPage the next request is
\* for the same partition at the endCursor of that page, after a page of
\* pastEvents that reports no next page it is for upcomingEvents at the null
\* cursor, and the walk ends only after a page of upcomingEvents that reports
\* no next page.
C28_PartitionsInOrderCursorsInSequence ==
    backend = "meetup" =>
       LET L == PageRequests
       IN /\ L # <<>> =>
                L[1].event_type = VPAST_EVENTS /\ L[1].after = NullCursor
          /\ \A i \in 1..(Len(L) - 1) :
                IF AnswerOf(L[i]).pageInfo.hasNextPage
                THEN /\ L[i + 1].event_type = L[i].event_type
                     /\ L[i + 1].after =
                           [t |-> "quoted", v |-> AnswerOf(L[i]).pageInfo.endCursor]
                ELSE /\ L[i].event_type = VPAST_EVENTS
                     /\ L[i + 1].event_type = VFUTURE_EVENTS
                     /\ L[i + 1].after = NullCursor
          /\ pc = "done" =>
                /\ L # <<>>
                /\ L[Len(L)].event_type = VFUTURE_EVENTS
                /\ ~AnswerOf(L[Len(L)]).pageInfo.hasNextPage

\* a walk that ended after two pages of pastEvents and one of upcomingEvents
C28_Witness ==
    /\ backend = "meetup" /\ pc = "done"
    /\ Len(PageRequests) = 3
    /\ PageRequests[2].event_type = VPAST_EVENTS
    /\ PageRequests[2].after # NullCursor
    /\ PageRequests[3].event_type = VFUTURE_EVENTS

\* the list requests that cover a partition of the group: one per page of
\* max_items events, the first at the null cursor, an empty partition included
PagesOfPartition(ty) ==
    LET n == Len(group_events[ty])
        pages == Max(1, (n + max_items - 1) \div max_items)
    IN [k \in 1..pages |->
          [query |-> "events", event_type |-> ty, first |-> max_items,
           after |-> IF k = 1 THEN NullCursor
                     ELSE [t |-> "quoted", v |-> (k - 1) * max_items]]]

\* every page of pastEvents, then every page of upcomingEvents
EveryPage == PagesOfPartition(VPAST_EVENTS) \o PagesOfPartition(VFUTURE_EVENTS)

\* C29: the list requests of the Meetup events walk are, whatever the
\* watermark and the dates of the events, the first requests of the sequence
\* that covers every page of pastEvents and then of upcomingEvents, and the
\* whole of that sequence when the walk ends: an event at or before the
\* watermark does not stop the walk.
C29_WatermarkNeverStopsTheWalk ==
    backend = "meetup" =>
       /\ IsPrefix(PageRequests, EveryPage)
       /\ pc = "done" => PageRequests = EveryPage

\* a walk that ended after three pages, the first of which starts with an
\* event at or before the watermark, and that yielded a later event
C29_Witness ==
    /\ backend = "meetup" /\ pc = "done"
    /\ Len(PageRequests) = 3
    /\ group_events[VPAST_EVENTS] # <<>>
    /\ ParseDateTime(group_events[VPAST_EVENTS][1].dateTime) <= from_date
    /\ yielded # <<>>

\* the instant of the event of an id
DateOf(event_id) == ParseDateTime(ServerEvent(event_id).dateTime)

\* the log holds the full-detail request of the event of an id
Expanded(event_id) ==
    \E i \in 1..Len(requests) : requests[i] = [query |-> "event", id |-> event_id]

\* C30: in the Meetup fetch the full-detail request of an event is issued
\* only for an event dated strictly after the watermark, at most once per
\* event, and for every such event by the time the walk ends; a comments or
\* rsvps request is issued only for an event whose detail was requested
\* before; the step over a listed event at or before the watermark issues no
\* request and yields nothing.
C30_DetailOnlyAfterWatermark ==
    /\ [](backend = "meetup" =>
            /\ \A i \in 1..Len(requests) :
                  /\ requests[i].query = "event" =>
                        /\ DateOf(requests[i].id) > from_date
                        /\ \A j \in 1..Len(requests) :
                              requests[j] = requests[i] => j = i
                  /\ requests[i].query \in {"comments", "tickets"} =>
                        \E j \in 1..(i - 1) :
                           requests[j] = [query |-> "event", id |-> requests[i].id]
            /\ pc = "done" =>
                  \A k \in 1..Len(AllEvents) :
                     ParseDateTime(AllEvents[k].dateTime) > from_date
                        => Expanded(AllEvents[k].id))
    /\ [][(backend = "meetup" /\ pc = "edges" /\ edge_i <= Len(events_page.edges)
             /\ ParseDateTime(events_page.edges[edge_i].node.dateTime) <= from_date)
            => (requests' = requests /\ yielded' = yielded /\ pc' = "edges")]_vars

\* a walk that ended after it expanded an event, with its comments and rsvps,
\* and skipped an event dated at the watermark
C30_Witness ==
    /\ backend = "meetup" /\ pc = "done"
    /\ \E i \in 1..Len(requests) : requests[i].query = "tickets"
    /\ \E k \in 1..Len(AllEvents) :
          /\ ParseDateTime(AllEvents[k].dateTime) = from_date
          /\ ~Expanded(AllEvents[k].id)

\* C36: in a recording run of a Gerrit command, a sleep follows every failed
\* attempt, the last one included; the sleep after the i-th failed attempt is
\* RETRY_WAIT * (i - 1); when all MAX_RETRIES attempts have failed the client
\* has slept RETRY_WAIT * (0 + 1 + ... + (MAX_RETRIES - 1)) in total by the
\* time it raises.
C36_SleepIsRetryWaitTimesFailuresBefore ==
    Recording =>
       /\ Len(slept) = Failures(attempts)
       /\ \A i \in 1..Len(slept) : slept[i] = RETRY_WAIT * (i - 1)
       /\ (xpc = "raised" /\ IsRuntimeError(response)) =>
             /\ Len(slept) = MAX_RETRIES
             /\ slept[MAX_RETRIES] = RETRY_WAIT * (MAX_RETRIES - 1)
             /\ SumSeq(slept) = RETRY_WAIT * ((MAX_RETRIES * (MAX_RETRIES - 1)) \div 2)

\* a command has raised after MAX_RETRIES failed attempts and as many sleeps,
\* the first of them of zero seconds
C36_Witness ==
    /\ Recording /\ xpc = "raised" /\ IsRuntimeError(response)
    /\ Len(slept) = MAX_RETRIES /\ slept[1] = 0 /\ SumSeq(slept) > 0

\* C34: a Gerrit page request with a status filter other than status:open or
\* status:closed raises a BackendError while the command is assembled: no
\* subprocess runs for it, nothing is stored in or read from the archive, it is
\* not retried, and no command carrying such a filter is ever executed.
C34_UnsupportedFilterRaisesBeforeExecute ==
    /\ cmd.filter \in {FILTER_NONE, FILTER_OPEN, FILTER_CLOSED}
    /\ \A k \in DOMAIN archive : k.filter # FILTER_MERGED
    /\ response.kind = "BackendError" =>
          /\ response.data = FILTER_MERGED
          /\ xpc = "idle" /\ cmd = NoCmd
          /\ attempts = <<>> /\ slept = <<>> /\ retries = 0
          /\ stores = <<>> /\ retrieves = <<>>

\* the request is rejected by a recording client whose archive holds entries
C34_Witness ==
    /\ response = FilterError(FILTER_MERGED)
    /\ ~from_archive /\ has_archive /\ archive # <<>>
    /\ attempts = <<>> /\ stores = <<>>

\* C33: after a rate-limit wait that slept, the rate state is unknown, and a
\* second rate-limit wait made with no response observed in between returns
\* without sleeping and leaves the state unknown.
C33_SleptWaitClearsRateState ==
    [][(rpc = "returned" /\ rate_slept # <<>>) =>
          /\ RateState = NoRate
          /\ (now' = now /\ rpc' # "updated") =>
                /\ rpc' = "returned" /\ rate_slept' = <<>> /\ rate_error' = "none"
                /\ RateState' = NoRate]_vars

\* a throttling Meetup client saw a low quota with a reset value ahead, and its
\* last call is a wait that started from the unknown state and did not sleep
C33_Witness ==
    /\ subclass = "MeetupClient" /\ sleep_for_rate
    /\ last_headers.remaining # NoneVal /\ last_headers.reset # NoneVal
    /\ last_headers.remaining.v <= min_rate_to_sleep /\ last_headers.reset.v > 0
    /\ rpc = "returned" /\ rate_slept = <<>>
    /\ rate_before = NoRate /\ RateState = NoRate

\* the requests of the log of one kind
RequestsOfKind(kind) == SelectSeq(requests, LAMBDA r : r.query = kind)

\* the three requests of one event, all answered
RequestsOfEvent(event_id) ==
    <<[query |-> "event", id |-> event_id], [query |-> "comments", id |-> event_id],
      [query |-> "tickets", id |-> event_id]>>

\* C35: the requests of a Meetup fetch never interleave across events: the
\* detail request of an event is followed at once by its comments walk and
\* that by its rsvps walk, only a request that fails for good cuts the run
\* short, the events handed to the caller are those whose rsvps walk was
\* completed, in that order, and the step that hands an event over has issued
\* its three requests and nothing else since the previous hand-over or page.
C35_RequestsNeverInterleaveAcrossEvents ==
    /\ [](backend = "meetup" =>
          /\ \A i \in 1..Len(requests) :
                LET r == requests[i]
                    last == i = Len(requests)
                IN /\ r.query = "event" =>
                         IF last THEN pc = "raised"
                         ELSE requests[i + 1] = [query |-> "comments", id |-> r.id]
                   /\ r.query = "comments" =>
                         /\ i > 1 /\ requests[i - 1] = [query |-> "event", id |-> r.id]
                         /\ IF last THEN pc = "raised"
                            ELSE requests[i + 1] = [query |-> "tickets", id |-> r.id]
                   /\ r.query = "tickets" =>
                         /\ i > 1
                         /\ requests[i - 1] = [query |-> "comments", id |-> r.id]
          /\ LET walked == RequestsOfKind("tickets")
             IN /\ Len(yielded) <= Len(walked) /\ Len(walked) <= Len(yielded) + 1
                /\ \A k \in 1..Len(yielded) : yielded[k].id = walked[k].id
                /\ Len(walked) > Len(yielded) =>
                      /\ pc = "raised"
                      /\ requests[Len(requests)].query = "tickets")
    /\ [][(backend = "meetup" /\ Len(yielded') > Len(yielded)) =>
             /\ Len(yielded') = Len(yielded) + 1
             /\ requests' = requests \o RequestsOfEvent(yielded'[Len(yielded')].id)]_vars

\* two events were handed over, with a list page requested between them
C35_Witness ==
    /\ backend = "meetup" /\ Len(yielded) = 2
    /\ Len(requests) = 8
    /\ requests[1].query = "events" /\ requests[5].query = "events"
    /\ requests[4] = [query |-> "tickets", id |-> yielded[1].id]
    /\ requests[8] = [query |-> "tickets", id |-> yielded[2].id]

\* C31: in the Meetup client every request issued outside replay mode is
\* preceded by exactly one rate-limit wait, made inside the same _fetch call
\* and before the request is sent; in replay mode the wait is never called and
\* the request follows the call at once.
C31_OneWaitBeforeEachRequestOutsideReplay ==
    /\ \A i \in 1..Len(calls) :
          /\ calls[i] = "fetch" =>
                /\ i > 1
                /\ IF replay THEN calls[i - 1] = "_fetch"
                   ELSE /\ i > 2
                        /\ calls[i - 1] = "sleep_for_rate_limit"
                        /\ calls[i - 2] = "_fetch"
          /\ calls[i] = "sleep_for_rate_limit" =>
                /\ ~replay
                /\ i > 1 /\ calls[i - 1] = "_fetch"
    /\ cpc = "send" =>
          calls[Len(calls)] = IF replay THEN "_fetch" ELSE "sleep_for_rate_limit"
    /\ cpc = "returned" => calls[Len(calls)] = "fetch"

\* outside replay mode two requests were sent, the first after a wait that
\* slept on the low quota the client had observed
C31_Witness ==
    /\ ~replay /\ cpc = "returned"
    /\ calls = <<"_fetch", "sleep_for_rate_limit", "fetch",
                 "_fetch", "sleep_for_rate_limit", "fetch">>
    /\ sleep_for_rate
    /\ last_headers.remaining # NoneVal /\ last_headers.reset # NoneVal
    /\ last_headers.remaining.v <= min_rate_to_sleep
    /\ RateState = NoRate

\* C32: once _fetch has completed a request the remaining quota and the reset
\* value equal the quota signals of the response it received, unknown when
\* the response carries none.
C32_RateStateIsRefreshedByEachResponse ==
    cpc = "returned" => RateState = update_rate_limit(received)

====
